---- MODULE Spec2Model ----
(***************************************************************************)
(* Model of the xHCI ring engine of the mu3h test driver (xhci.c): the     *)
(* transfer/command ring cursor primitives, the TD builders, the           *)
(* controller as a concurrent consumer, the event ring and the             *)
(* Stop-Endpoint watchdog.                                                 *)
(***************************************************************************)
EXTENDS Integers, Sequences, FiniteSets, TLC

(* ------------------------------------------------------------------ *)
(* Bounds of the model                                                 *)
(* ------------------------------------------------------------------ *)

\* slots per segment; on a command or transfer ring the last one is the Link TRB
TRBS_PER_SEGMENT == 3
\* segments of a command or transfer ring
NumSegs == 2
\* TDs that may be pending on one transfer ring
MaxTDs == 2

(* ------------------------------------------------------------------ *)
(* Program constants and memory layout                                 *)
(* ------------------------------------------------------------------ *)

TRB_MAX_BUFF_SIZE == 65536

\* segments of the event ring
ERST_NUM_SEGS == 1
MaxEvents == 4

NULL == 0 - 1

\* a minimum that is its first argument
MinOfFirst(a, b) == a

Toggle(c) == IF c = 0 THEN 1 ELSE 0

Min(a, b) == IF a < b THEN a ELSE b

\* seg->trbs: the address of the first TRB of segment seg; segments are
\* separate allocations, so one past the end of a segment is no TRB of another
SegTrbs(seg) == seg * (TRBS_PER_SEGMENT + 1)

\* the TRB addresses of a ring of n segments
RingSlots(n) == { SegTrbs(seg) + i : seg \in 0 .. (n - 1), i \in 0 .. (TRBS_PER_SEGMENT - 1) }

Slots == RingSlots(NumSegs)

\* the slots of a command or transfer ring that can hold a TRB other than the Link TRB
Usable == NumSegs * (TRBS_PER_SEGMENT - 1)

\* seg->next: the segments of a ring form a cycle
SegNext(ring, seg) == (seg + 1) % ring.segs

ZeroTrb == [type |-> "zero", cycle |-> 0, chain |-> FALSE, ioc |-> FALSE, toggle |-> FALSE]

\* A command or transfer ring as xhci_ring_alloc leaves it: zeroed segments, the
\* last slot of each segment a Link TRB to the next segment, LINK_TOGGLE on the
\* last segment's, enqueue = dequeue = first TRB, cycle_state = 1.
\* The field out counts the TRBs enqueued and not yet dequeued (history only).
\* The field td_cnt is urb_priv->td_cnt of the requests that have TDs on the
\* td_list, by the first TRB of the request.
\* The fields transfer_buffer_length and actual_length are those of the urb of
\* a control TD on the td_list, by the first TRB of the request; the lengths of
\* other requests are not kept.
RingAlloc ==
  [event |-> FALSE, segs |-> NumSegs,
   trbs |-> [p \in Slots |->
               IF (p % (TRBS_PER_SEGMENT + 1)) = TRBS_PER_SEGMENT - 1
               THEN [type |-> "link", cycle |-> 0, chain |-> FALSE, ioc |-> FALSE,
                     toggle |-> (p = SegTrbs(NumSegs - 1) + TRBS_PER_SEGMENT - 1)]
               ELSE ZeroTrb],
   enqueue |-> 0, enq_seg |-> 0,
   dequeue |-> 0, deq_seg |-> 0,
   cycle_state |-> 1,
   td_list |-> << >>,
   td_cnt |-> [p \in Slots |-> 0],
   transfer_buffer_length |-> [p \in Slots |-> 0],
   actual_length |-> [p \in Slots |-> 0],
   out |-> 0]

(* ------------------------------------------------------------------ *)
(* Ring cursor primitives                                              *)
(* ------------------------------------------------------------------ *)

\* last_trb(): on the event ring one past the end of the segment, else a Link TRB
last_trb(ring, seg, trb) ==
  IF ring.event
  THEN trb = SegTrbs(seg) + TRBS_PER_SEGMENT
  ELSE trb \in DOMAIN ring.trbs /\ ring.trbs[trb].type = "link"

\* last_trb_on_last_seg(): on the event ring the end of the segment whose next is
\* the first segment, else the Link TRB's toggle flag
last_trb_on_last_seg(ring, seg, trb) ==
  IF ring.event
  THEN trb = SegTrbs(seg) + TRBS_PER_SEGMENT /\ SegNext(ring, seg) = 0
  ELSE ring.trbs[trb].toggle

enqueue_is_link_trb(ring) == ring.trbs[ring.enqueue].type = "link"

\* next_trb(): the TRB after trb, without skipping Link TRBs
next_trb(ring, c) ==
  IF last_trb(ring, c.seg, c.trb)
  THEN [seg |-> SegNext(ring, c.seg), trb |-> SegTrbs(SegNext(ring, c.seg))]
  ELSE [seg |-> c.seg, trb |-> c.trb + 1]

\* the while loop of inc_deq()
RECURSIVE inc_deq_loop(_, _)
inc_deq_loop(ring, consumer) ==
  IF last_trb(ring, ring.deq_seg, ring.dequeue)
  THEN inc_deq_loop(
         [ring EXCEPT !.cycle_state =
                        IF consumer /\ last_trb_on_last_seg(ring, ring.deq_seg, ring.dequeue)
                        THEN Toggle(@) ELSE @,
                      !.deq_seg = SegNext(ring, ring.deq_seg),
                      !.dequeue = SegTrbs(SegNext(ring, ring.deq_seg))],
         consumer)
  ELSE ring

\* inc_deq() without its while loop: the pointer is left where ++ put it
inc_deq_without_loop(ring, consumer) ==
  [ring EXCEPT !.dequeue = ring.dequeue + 1, !.out = IF ring.event THEN @ ELSE @ - 1]

\* inc_deq() toggling cycle_state at the last segment for every caller
inc_deq_as_consumer(ring, consumer) ==
  inc_deq_loop([ring EXCEPT !.dequeue = ring.dequeue + 1,
                            !.out = IF ring.event THEN @ ELSE @ - 1],
               TRUE)

inc_deq(ring, consumer) ==
  inc_deq_loop([ring EXCEPT !.dequeue = ring.dequeue + 1,
                            !.out = IF ring.event THEN @ ELSE @ - 1],
               consumer)

\* the Link TRB hand-over toggling cycle_state at every Link TRB
GiveLinkTrbAlwaysToggling(ring, chain) ==
  [ring EXCEPT !.trbs[ring.enqueue].chain = chain,
               !.trbs[ring.enqueue].cycle = Toggle(@),
               !.cycle_state = Toggle(@),
               !.enq_seg = SegNext(ring, ring.enq_seg),
               !.enqueue = SegTrbs(SegNext(ring, ring.enq_seg))]

\* the body of inc_enq()'s while loop once the break test has not fired, and of
\* prepare_ring()'s: hand the Link TRB over, toggle cycle_state after the last
\* segment, move the enqueue pointer to the next segment
GiveLinkTrb(ring, chain) ==
  LET next == ring.enqueue
      flip == last_trb_on_last_seg(ring, ring.enq_seg, next)
  IN [ring EXCEPT !.trbs[next].chain = chain,
                  !.trbs[next].cycle = Toggle(@),
                  !.cycle_state = IF flip THEN Toggle(@) ELSE @,
                  !.enq_seg = SegNext(ring, ring.enq_seg),
                  !.enqueue = SegTrbs(SegNext(ring, ring.enq_seg))]

\* inc_enq() without the test that leaves the enqueue pointer on the Link TRB
NeverKeepLinkTrb(chain, more_trbs_coming) == FALSE

\* the test of inc_enq() that leaves the enqueue pointer on the Link TRB
KeepLinkTrb(chain, more_trbs_coming) == ~chain /\ ~more_trbs_coming

\* the while loop of inc_enq(), consumer = false, ring != event_ring
RECURSIVE inc_enq_loop(_, _, _)
inc_enq_loop(ring, chain, more_trbs_coming) ==
  IF last_trb(ring, ring.enq_seg, ring.enqueue)
  THEN IF KeepLinkTrb(chain, more_trbs_coming)
       THEN ring
       ELSE inc_enq_loop(GiveLinkTrb(ring, chain), chain, more_trbs_coming)
  ELSE ring

inc_enq(ring, more_trbs_coming) ==
  LET chain == ring.trbs[ring.enqueue].chain
  IN inc_enq_loop([ring EXCEPT !.enqueue = ring.enqueue + 1, !.out = @ + 1],
                  chain, more_trbs_coming)

\* the pointer advance of room_on_ring(): skip Link TRBs
RECURSIVE SkipLinks(_, _)
SkipLinks(ring, c) ==
  IF last_trb(ring, c.seg, c.trb)
  THEN SkipLinks(ring, [seg |-> SegNext(ring, c.seg), trb |-> SegTrbs(SegNext(ring, c.seg))])
  ELSE c

\* the for loop of room_on_ring(): i = 0 .. num_trbs
RECURSIVE RoomLoop(_, _, _, _)
RoomLoop(ring, c, i, num_trbs) ==
  IF i > num_trbs THEN TRUE
  ELSE IF c.trb = ring.dequeue THEN FALSE
  ELSE RoomLoop(ring, SkipLinks(ring, [seg |-> c.seg, trb |-> c.trb + 1]), i + 1, num_trbs)

\* left_on_ring of an empty ring without the TRB kept free
LeftOnEmptyRingNoSpare(ring) == ring.segs * (TRBS_PER_SEGMENT - 1)

\* left_on_ring of an empty ring: no Link TRBs, one TRB always kept free
LeftOnEmptyRing(ring) == ring.segs * (TRBS_PER_SEGMENT - 1) - 1

room_on_ring(ring, num_trbs) ==
  LET c == SkipLinks(ring, [seg |-> ring.enq_seg, trb |-> ring.enqueue])
  IN IF c.trb = ring.dequeue
     THEN num_trbs <= LeftOnEmptyRing(ring)
     ELSE RoomLoop(ring, c, 0, num_trbs)

\* a prepare_ring() that leaves the enqueue pointer on the Link TRB
PrepareLinksNotGiven(ring) == ring

\* the Link TRB hand-over of prepare_ring(): chain cleared (no 0.95 quirk)
RECURSIVE PrepareLinks(_)
PrepareLinks(ring) ==
  IF last_trb(ring, ring.enq_seg, ring.enqueue)
  THEN PrepareLinks(GiveLinkTrb(ring, FALSE))
  ELSE ring

\* prepare_ring(): [ret, ring]
prepare_ring(ring, ep_state, num_trbs) ==
  IF ep_state = "disabled" THEN [ret |-> "ENOENT", ring |-> ring]
  ELSE IF ep_state \notin {"halted", "stopped", "running"} THEN [ret |-> "EINVAL", ring |-> ring]
  ELSE IF ~room_on_ring(ring, num_trbs) THEN [ret |-> "ENOMEM", ring |-> ring]
  ELSE [ret |-> "OK",
        ring |-> IF enqueue_is_link_trb(ring) THEN PrepareLinks(ring) ELSE ring]

\* queue_trb(): write the four fields at the enqueue pointer, then inc_enq()
queue_trb(ring, more_trbs_coming, trb) ==
  inc_enq([ring EXCEPT !.trbs[ring.enqueue] = trb], more_trbs_coming)

\* a TD as prepare_transfer() initialises it: td[0] of a request of one TD.
\* urb is td->urb, the request by its first TRB; td_index is the place of the TD
\* in urb_priv->td[]; length is urb_priv->length, the TDs of the request
NewTd(ring, kind) ==
  [kind |-> kind, start_seg |-> ring.enq_seg, first_trb |-> ring.enqueue, last_trb |-> NULL,
   urb |-> ring.enqueue, td_index |-> 0, length |-> 1]

\* no TD
NoTd == [kind |-> "none", start_seg |-> NULL, first_trb |-> NULL, last_trb |-> NULL,
         urb |-> NULL, td_index |-> 0, length |-> 0]

\* prepare_transfer() putting the TD on the td_list whatever prepare_ring() returned
prepare_transfer_unchecked(ring, ep_state, num_trbs, kind) ==
  LET r == prepare_ring(ring, ep_state, num_trbs)
  IN [ret |-> r.ret,
      ring |-> [r.ring EXCEPT !.td_list = Append(@, NewTd(r.ring, kind)),
                                   !.td_cnt[r.ring.enqueue] = 0]]

\* prepare_transfer(): prepare_ring(), then put the TD on the ring's td_list
prepare_transfer(ring, ep_state, num_trbs, kind) ==
  LET r == prepare_ring(ring, ep_state, num_trbs)
  IN IF r.ret # "OK" THEN r
     ELSE [ret |-> "OK",
           ring |-> [r.ring EXCEPT !.td_list = Append(@, NewTd(r.ring, kind)),
                                   !.td_cnt[r.ring.enqueue] = 0]]

\* td->last_trb = ep_ring->enqueue, for the TD being built (the tail of td_list)
SetLastTrb(ring) ==
  [ring EXCEPT !.td_list[Len(ring.td_list)].last_trb = ring.enqueue]

(* ------------------------------------------------------------------ *)
(* TD builders                                                         *)
(* ------------------------------------------------------------------ *)

NoUrb == [kind |-> "none", transfer_dma |-> 0, len |-> 0, zero_packet |-> FALSE,
          maxp |-> 512, sg |-> << >>, packets |-> << >>]

\* the place, the buffer pointer, the length and the TD size of a TRB without data
NoBuf == [data |-> FALSE, at |-> NULL, addr |-> 0, len |-> 0, rem |-> 0]

\* the frame of the builder call in progress; written is the set of TRBs the
\* call has written so far, more the more_trbs_coming of its last queue_trb(),
\* trb the buffer pointer, length and TD size that queue_trb() was given and
\* sum the lengths given for the TD so far (all four history only)
Idle ==
  [pc |-> "idle", e |-> 0, urb |-> NoUrb, num_trbs |-> 0, first_trb |-> FALSE,
   start_trb |-> NULL, start_cycle |-> 0, zlp |-> FALSE,
   num_sgs |-> 0, sgi |-> 0, addr |-> 0, this_sg_len |-> 0, trb_buff_len |-> 0,
   running_total |-> 0, i |-> 0, j |-> 0, trbs_per_td |-> 0, written |-> {}, more |-> FALSE,
   trb |-> NoBuf, sum |-> 0]

\* a TRB of a whole 64KB wherever its buffer starts
ToBoundaryWhole(addr) == TRB_MAX_BUFF_SIZE

\* TRB_MAX_BUFF_SIZE - (addr & ((1 << TRB_MAX_BUFF_SHIFT) - 1))
ToBoundary(addr) == TRB_MAX_BUFF_SIZE - (addr % TRB_MAX_BUFF_SIZE)

\* while (running_total < len) { num_trbs++; running_total += TRB_MAX_BUFF_SIZE; }
RECURSIVE MoreChunks(_, _)
MoreChunks(running_total, len) ==
  IF running_total < len THEN 1 + MoreChunks(running_total + TRB_MAX_BUFF_SIZE, len) ELSE 0

\* URB_ZERO_PACKET set and the length a multiple of the max packet size
NeedsZlp(urb) == urb.zero_packet /\ (urb.len % urb.maxp) = 0

\* the TRB count of xhci_queue_bulk_tx()
count_bulk_trbs(urb) ==
  LET running_total == ToBoundary(urb.transfer_dma)
  IN (IF running_total # 0 \/ urb.len = 0 THEN 1 ELSE 0)
     + MoreChunks(running_total, urb.len)
     + (IF NeedsZlp(urb) THEN 1 ELSE 0)

\* count_sg_trbs_needed(): entries i .. num_sgs, temp bytes of the transfer left
RECURSIVE count_sg_from(_, _, _)
count_sg_from(urb, i, temp) ==
  IF i > Len(urb.sg) THEN 0
  ELSE LET running_total == ToBoundary(urb.sg[i].addr)
           n == (IF running_total # 0 THEN 1 ELSE 0) + MoreChunks(running_total, urb.sg[i].len)
           len == Min(urb.sg[i].len, temp)
       IN IF temp - len = 0 THEN n ELSE n + count_sg_from(urb, i + 1, temp - len)

count_sg_trbs_needed(urb) == count_sg_from(urb, 1, urb.len)

\* count_isoc_trbs_needed()
count_isoc_trbs_needed(urb, i) ==
  LET addr == urb.transfer_dma + urb.packets[i].offset
      running_total == ToBoundary(addr)
  IN (IF running_total # 0 THEN 1 ELSE 0) + MoreChunks(running_total, urb.packets[i].length)

RECURSIVE count_isoc_total(_, _)
count_isoc_total(urb, i) ==
  IF i > Len(urb.packets) THEN 0
  ELSE count_isoc_trbs_needed(urb, i) + count_isoc_total(urb, i + 1)

\* the count of xhci_queue_ctrl_tx(): Setup and Status, and Data if there is data
count_ctrl_trbs(urb) == 2 + (IF urb.len > 0 THEN 1 ELSE 0)

\* the cycle bit a builder writes: inverted on the first TRB of the request
TrbCycle(ring, cur, first) == IF first THEN Toggle(cur.start_cycle) ELSE ring.cycle_state

Trb(type, cycle, chain, ioc) ==
  [type |-> type, cycle |-> cycle, chain |-> chain, ioc |-> ioc, toggle |-> FALSE]

\* the frame after one queue_trb() at the enqueue pointer of ring
Wrote(ring, cur, more) ==
  [cur EXCEPT !.written = @ \cup {ring.enqueue}, !.first_trb = FALSE, !.more = more,
              !.trb = NoBuf]

\* the frame after a queue_trb() that was given a buffer pointer, a length and
\* a TD size
WroteData(ring, cur, more, addr, len, rem) ==
  [Wrote(ring, cur, more) EXCEPT
     !.trb = [data |-> TRUE, at |-> ring.enqueue, addr |-> addr, len |-> len, rem |-> rem],
     !.sum = @ + len]

\* xhci_td_remainder(), as the value of bits 21:17
xhci_td_remainder(td_transfer_size, td_running_total, maxp, trb_buffer_length) ==
  LET max == 31
      packet_transferred == td_running_total \div maxp
      \* DIV_ROUND_UP(td_transfer_size, maxp)
      td_packet_count == (td_transfer_size + maxp - 1) \div maxp
      remainder == td_packet_count - packet_transferred
  IN IF td_running_total + trb_buffer_length = td_transfer_size THEN 0
     ELSE IF remainder > max THEN max ELSE remainder

\* xhci_queue_bulk_tx() and queue_bulk_sg_tx() up to the first TRB: count,
\* prepare_transfer(), save start_trb and start_cycle
bulk_start(ring, ep_state, e, urb) ==
  LET sg == Len(urb.sg) > 0
      num_trbs == IF sg THEN count_sg_trbs_needed(urb) ELSE count_bulk_trbs(urb)
      r == prepare_transfer(ring, ep_state, num_trbs, "bulk")
      first_len == IF sg
                   THEN Min(Min(ToBoundary(urb.sg[1].addr), urb.sg[1].len), urb.len)
                   ELSE Min(ToBoundary(urb.transfer_dma), urb.len)
  IN IF r.ret # "OK" THEN [ret |-> r.ret, ring |-> r.ring, cur |-> Idle]
     ELSE [ret |-> "OK", ring |-> r.ring,
           cur |-> [Idle EXCEPT !.pc = IF sg THEN "sg" ELSE "bulk",
                                !.e = e, !.urb = urb, !.num_trbs = num_trbs,
                                !.first_trb = TRUE,
                                !.start_trb = r.ring.enqueue,
                                !.start_cycle = r.ring.cycle_state,
                                !.zlp = sg /\ NeedsZlp(urb),
                                !.num_sgs = Len(urb.sg), !.sgi = 1,
                                !.addr = IF sg THEN urb.sg[1].addr ELSE urb.transfer_dma,
                                !.this_sg_len = IF sg THEN urb.sg[1].len ELSE 0,
                                !.trb_buff_len = first_len]]

\* one iteration of the do-while loop of xhci_queue_bulk_tx()
bulk_step(ring, cur) ==
  LET more == cur.num_trbs > 1
      r1 == IF more THEN ring ELSE SetLastTrb(ring)
      r2 == queue_trb(r1, more, Trb("normal", TrbCycle(ring, cur, cur.first_trb), more, ~more))
      total == cur.running_total + cur.trb_buff_len
      remainder == xhci_td_remainder(cur.urb.len, cur.running_total, cur.urb.maxp,
                                     cur.trb_buff_len)
  IN [ring |-> r2,
      cur |-> [WroteData(ring, cur, more, cur.addr, cur.trb_buff_len, remainder) EXCEPT
                 !.num_trbs = @ - 1,
                 !.running_total = total,
                 !.addr = @ + cur.trb_buff_len,
                 !.trb_buff_len = Min(cur.urb.len - total, TRB_MAX_BUFF_SIZE),
                 !.pc = IF cur.num_trbs - 1 > 0 THEN "bulk" ELSE "giveback"]]

\* one iteration of the do-while loop of queue_bulk_sg_tx()
sg_step(ring, cur) ==
  LET more == cur.num_trbs > 1 \/ cur.zlp
      r1 == IF more THEN ring ELSE SetLastTrb(ring)
      r2 == queue_trb(r1, more, Trb("normal", TrbCycle(ring, cur, cur.first_trb), more, ~more))
      total == cur.running_total + cur.trb_buff_len
      sg_left == cur.this_sg_len - cur.trb_buff_len
      sg_done == sg_left = 0
      break == sg_done /\ cur.num_sgs - 1 = 0
      addr == IF sg_done /\ ~break THEN cur.urb.sg[cur.sgi + 1].addr
              ELSE IF sg_done THEN cur.addr ELSE cur.addr + cur.trb_buff_len
      sg_len == IF sg_done /\ ~break THEN cur.urb.sg[cur.sgi + 1].len ELSE sg_left
      next_len == Min(ToBoundary(addr), sg_len)
      after == IF cur.zlp THEN "sgzlp" ELSE "giveback"
      remainder == xhci_td_remainder(cur.urb.len, cur.running_total, cur.urb.maxp,
                                     cur.trb_buff_len)
  IN [ring |-> r2,
      cur |-> [WroteData(ring, cur, more, cur.addr, cur.trb_buff_len, remainder) EXCEPT
                 !.num_trbs = @ - 1,
                 !.running_total = total,
                 !.num_sgs = IF sg_done THEN @ - 1 ELSE @,
                 !.sgi = IF sg_done /\ ~break THEN @ + 1 ELSE @,
                 !.addr = addr,
                 !.this_sg_len = sg_len,
                 !.trb_buff_len = IF break THEN cur.trb_buff_len
                                  ELSE IF total + next_len > cur.urb.len
                                  THEN cur.urb.len - total ELSE next_len,
                 !.pc = IF break \/ cur.num_trbs - 1 <= 0 THEN after ELSE "sg"]]

\* the zero-length TRB queue_bulk_sg_tx() adds after its loop
sg_zlp_step(ring, cur) ==
  [ring |-> queue_trb(SetLastTrb(ring), FALSE, Trb("normal", ring.cycle_state, FALSE, TRUE)),
   cur |-> [WroteData(ring, cur, FALSE, cur.addr, 0, 0) EXCEPT !.pc = "giveback"]]

\* xhci_queue_ctrl_tx() up to the Setup TRB
ctrl_start(ring, ep_state, e, urb) ==
  LET num_trbs == count_ctrl_trbs(urb)
      r == prepare_transfer(ring, ep_state, num_trbs, "ctrl")
  IN IF r.ret # "OK" THEN [ret |-> r.ret, ring |-> r.ring, cur |-> Idle]
     ELSE [ret |-> "OK",
           ring |-> [r.ring EXCEPT !.transfer_buffer_length[r.ring.enqueue] = urb.len],
           cur |-> [Idle EXCEPT !.pc = "setup", !.e = e, !.urb = urb,
                                !.num_trbs = num_trbs, !.first_trb = TRUE,
                                !.start_trb = r.ring.enqueue,
                                !.start_cycle = r.ring.cycle_state]]

\* the queue_trb() calls of xhci_queue_ctrl_tx(): Setup, Data when there is data,
\* a zero-length Data for URB_ZERO_PACKET, Status
ctrl_step(ring, cur) ==
  LET zlp == NeedsZlp(cur.urb)
  IN CASE cur.pc = "setup" ->
            [ring |-> queue_trb(ring, TRUE, Trb("setup", Toggle(cur.start_cycle), FALSE, FALSE)),
             cur |-> [Wrote(ring, cur, TRUE) EXCEPT
                        !.pc = IF cur.urb.len > 0 THEN "data"
                               ELSE IF zlp THEN "zlpdata" ELSE "status"]]
       [] cur.pc = "data" ->
            [ring |-> queue_trb(ring, TRUE, Trb("data", ring.cycle_state, FALSE, FALSE)),
             cur |-> [WroteData(ring, cur, TRUE, cur.urb.transfer_dma, cur.urb.len, 0) EXCEPT
                        !.pc = IF zlp THEN "zlpdata" ELSE "status"]]
       [] cur.pc = "zlpdata" ->
            [ring |-> queue_trb(ring, TRUE, Trb("data", ring.cycle_state, FALSE, FALSE)),
             cur |-> [WroteData(ring, cur, TRUE, cur.urb.transfer_dma, 0, 0) EXCEPT
                        !.pc = "status"]]
       [] OTHER ->
            [ring |-> queue_trb(SetLastTrb(ring), FALSE,
                                Trb("status", ring.cycle_state, FALSE, TRUE)),
             cur |-> [Wrote(ring, cur, FALSE) EXCEPT !.pc = "giveback"]]

\* xhci_queue_isoc_tx_prepare(): prepare_ring() for the TRBs of all the TDs, then
\* xhci_queue_isoc_tx() up to its loop over the TDs
isoc_start(ring, ep_state, e, urb) ==
  LET r == prepare_ring(ring, ep_state, count_isoc_total(urb, 1))
  IN IF r.ret # "OK" THEN [ret |-> r.ret, ring |-> r.ring, cur |-> Idle]
     ELSE IF Len(urb.packets) < 1 THEN [ret |-> "EINVAL", ring |-> r.ring, cur |-> Idle]
     ELSE [ret |-> "OK", ring |-> r.ring,
           cur |-> [Idle EXCEPT !.pc = "isoc_td", !.e = e, !.urb = urb,
                                !.start_trb = r.ring.enqueue,
                                !.start_cycle = r.ring.cycle_state,
                                !.i = 1]]

\* prepare_transfer(..., urb, i, ...) of xhci_queue_isoc_tx(): the TD put on
\* the td_list of ring is td[cur.i - 1] of the request that starts at
\* cur.start_trb; the request's td_cnt is as it was in ring0 but for td[0]
isoc_td(ring0, ring, cur) ==
  [ring EXCEPT !.td_list[Len(ring.td_list)] =
                  [@ EXCEPT !.urb = cur.start_trb, !.td_index = cur.i - 1,
                            !.length = Len(cur.urb.packets)],
               !.td_cnt = IF cur.i = 1 THEN @ ELSE ring0.td_cnt]

\* xhci_queue_isoc_tx(): the head of the loop over TDs (prepare_transfer() for
\* TD i) and one iteration of the loop over the TRBs of a TD
isoc_step(ring, ep_state, cur) ==
  IF cur.pc = "isoc_td"
  THEN LET n == count_isoc_trbs_needed(cur.urb, cur.i)
           r == prepare_transfer(ring, ep_state, n, "isoc")
       IN IF r.ret # "OK" THEN [ring |-> r.ring, cur |-> Idle, ret |-> r.ret]
          ELSE [ring |-> isoc_td(ring, r.ring, cur), ret |-> "OK",
                cur |-> [cur EXCEPT !.pc = "isoc_trb", !.trbs_per_td = n, !.j = 0,
                                    !.first_trb = TRUE, !.running_total = 0,
                                    !.addr = cur.urb.transfer_dma + cur.urb.packets[cur.i].offset,
                                    !.sum = 0]]
  ELSE LET more == cur.j < cur.trbs_per_td - 1
           r1 == IF more THEN ring ELSE SetLastTrb(ring)
           cycle == IF cur.first_trb /\ cur.i = 1
                    THEN Toggle(cur.start_cycle) ELSE ring.cycle_state
           type == IF cur.first_trb THEN "isoc" ELSE "normal"
           r2 == queue_trb(r1, more, Trb(type, cycle, more, ~more))
           td_done == cur.j + 1 >= cur.trbs_per_td
           last_td == cur.i + 1 > Len(cur.urb.packets)
           td_len == cur.urb.packets[cur.i].length
           trb_buff_len == Min(ToBoundary(cur.addr), td_len - cur.running_total)
           remainder == xhci_td_remainder(td_len, cur.running_total, cur.urb.maxp, trb_buff_len)
       IN [ring |-> r2, ret |-> "OK",
           cur |-> [WroteData(ring, cur, more, cur.addr, trb_buff_len, remainder) EXCEPT
                      !.running_total = @ + trb_buff_len,
                      !.addr = @ + trb_buff_len,
                      !.trb_buff_len = trb_buff_len,
                      !.j = @ + 1,
                      !.i = IF td_done THEN @ + 1 ELSE @,
                      !.pc = IF ~td_done THEN "isoc_trb"
                             ELSE IF last_td THEN "giveback" ELSE "isoc_td"]]

\* a ring_ep_doorbell() that rings whatever the endpoint's ep_state
DoorbellAlwaysAllowed(ep_state) == TRUE

\* ring_ep_doorbell(): no doorbell while a Stop Endpoint or a Set TR Dequeue
\* command is pending or the endpoint is halted
DoorbellAllowed(ep_state) == ep_state \cap {"EP_HALT_PENDING", "SET_DEQ_PENDING", "EP_HALTED"} = {}

\* giveback_first_trb(): give the first TRB its cycle bit
giveback_first_trb(ring, cur) ==
  [ring EXCEPT !.trbs[cur.start_trb].cycle = cur.start_cycle]

\* the entry of a builder, by the kind of the URB
builder_start(ring, ep_state, e, urb) ==
  CASE urb.kind = "bulk" -> bulk_start(ring, ep_state, e, urb)
    [] urb.kind = "ctrl" -> ctrl_start(ring, ep_state, e, urb)
    [] OTHER -> isoc_start(ring, ep_state, e, urb)

\* the next step of the builder call in progress: [ring, cur, ret, doorbell]
builder_step(ring, ep, cur) ==
  IF cur.pc = "giveback"
  THEN [ring |-> giveback_first_trb(ring, cur), cur |-> Idle, ret |-> "OK",
        doorbell |-> DoorbellAllowed(ep.ep_state)]
  ELSE LET r == CASE cur.pc = "bulk" -> bulk_step(ring, cur) @@ [ret |-> "OK"]
                  [] cur.pc = "sg" -> sg_step(ring, cur) @@ [ret |-> "OK"]
                  [] cur.pc = "sgzlp" -> sg_zlp_step(ring, cur) @@ [ret |-> "OK"]
                  [] cur.pc \in {"isoc_td", "isoc_trb"} -> isoc_step(ring, ep.ctx_state, cur)
                  [] OTHER -> ctrl_step(ring, cur) @@ [ret |-> "OK"]
       IN r @@ [doorbell |-> FALSE]

(* ------------------------------------------------------------------ *)
(* State                                                               *)
(* ------------------------------------------------------------------ *)

VARIABLES
  eps,        \* per endpoint: transfer ring, ep_state flags, context state, lists
  hw,         \* per endpoint: the controller's dequeue pointer, cycle state, running
  er,         \* the event ring; enqueue and pcs are the controller's side
  cur,        \* the frame of the builder call in progress
  ret,        \* the value the last builder call returned
  xhc_state,  \* the xhc_state flags and, as STS_HALT, the halted bit of the status register
  wd,         \* the frame of the watchdog call in progress
  given,      \* per endpoint: the TDs given back with -ESHUTDOWN (history only)
  cmd_ring,   \* the command ring
  cmd_hw,     \* the controller's command ring dequeue pointer, cycle state, running
  regs,       \* the bits of error_bitmask the command completion handler sets, g_cmd_status
  irq         \* the frame of the interrupt handler call in progress

vars == << eps, hw, er, cur, ret, xhc_state, wd, given, cmd_ring, cmd_hw, regs, irq >>

\* endpoints with a transfer ring
NumEps == 2
Eps == 0 .. (NumEps - 1)

ErSlots == RingSlots(ERST_NUM_SEGS)

NoEvent == [cycle |-> 0, type |-> "none", e |-> 0, trb |-> 0, code |-> "none", len |-> 0]

\* the event ring as allocated: zeroed, software and controller at the first TRB,
\* both cycle states 1; erst_dequeue and ehb are the interrupter's event ring
\* dequeue pointer register and its event handler busy bit
EventRingAlloc ==
  [event |-> TRUE, segs |-> ERST_NUM_SEGS,
   trbs |-> [p \in ErSlots |-> NoEvent],
   enqueue |-> 0, enq_seg |-> 0, pcs |-> 1,
   dequeue |-> 0, deq_seg |-> 0, cycle_state |-> 1,
   erst_dequeue |-> 0, ehb |-> FALSE,
   out |-> 0]

EpAlloc ==
  [ring |-> RingAlloc, ctx_state |-> "running", ep_state |-> {},
   stop_cmds_pending |-> 0, stop_cmd_timer |-> FALSE, cancelled_td_list |-> << >>,
   stopped_td |-> NoTd, stopped_trb |-> NULL]

\* halt_at is the TRB whose error halted the endpoint, until a Set TR Dequeue
\* Pointer command has moved the dequeue pointer off it (history only)
HwIdle == [deq |-> 0, seg |-> 0, ccs |-> 1, running |-> FALSE, halt_at |-> NULL]

WdIdle == [pc |-> "idle", j |-> 0, doomed |-> [e \in Eps |-> {}]]

\* no error has been seen and no command has completed
RegsInit == [error_bitmask |-> {}, g_cmd_status |-> "CMD_RUNNING"]

\* event_ring_deq is the dequeue pointer at the entry of the handler
IrqIdle == [pc |-> "idle", event_ring_deq |-> 0]

Init ==
  /\ eps = [e \in Eps |-> EpAlloc]
  /\ hw = [e \in Eps |-> HwIdle]
  /\ er = EventRingAlloc
  /\ cur = Idle
  /\ ret = "none"
  /\ xhc_state = {}
  /\ wd = WdIdle
  /\ given = [e \in Eps |-> << >>]
  /\ cmd_ring = RingAlloc
  /\ cmd_hw = HwIdle
  /\ regs = RegsInit
  /\ irq = IrqIdle

(* ------------------------------------------------------------------ *)
(* The controller                                                      *)
(* ------------------------------------------------------------------ *)

\* the event ring slot after the controller's enqueue pointer
ErNext(r) ==
  IF r.enqueue + 1 = SegTrbs(r.enq_seg) + TRBS_PER_SEGMENT
  THEN [seg |-> SegNext(r, r.enq_seg), trb |-> SegTrbs(SegNext(r, r.enq_seg)),
        wrap |-> SegNext(r, r.enq_seg) = 0]
  ELSE [seg |-> r.enq_seg, trb |-> r.enqueue + 1, wrap |-> FALSE]

\* the controller may write an event unless that would fill the event ring up
\* to the dequeue pointer software reported
ErHasRoom(r) == ErNext(r).trb # r.erst_dequeue

\* the controller writes an event with its producer cycle state
ErPost(r, ev) ==
  LET n == ErNext(r)
  IN [r EXCEPT !.trbs[r.enqueue] = [ev EXCEPT !.cycle = r.pcs],
               !.enqueue = n.trb, !.enq_seg = n.seg, !.ehb = TRUE,
               !.pcs = IF n.wrap THEN Toggle(@) ELSE @]

\* len is TRB_LEN(event->transfer_len), the bytes not transferred
TransferEvent(e, trb, code) ==
  [cycle |-> 0, type |-> "transfer", e |-> e, trb |-> trb, code |-> code, len |-> 0]

\* The controller executes the TRB at its dequeue pointer when the TRB's cycle
\* bit matches its cycle state, and stops until the next doorbell otherwise.
\* A Link TRB moves it to the next segment; a TRB with IOC posts a transfer event.
HwStep(e) ==
  LET h == hw[e]
      trb == eps[e].ring.trbs[h.deq]
  IN /\ h.running
     /\ "STS_HALT" \notin xhc_state
     /\ IF trb.cycle # h.ccs
        THEN /\ hw' = [hw EXCEPT ![e].running = FALSE]
             /\ er' = er
        ELSE IF trb.type = "link"
        THEN /\ hw' = [hw EXCEPT ![e].deq = SegTrbs(SegNext(eps[e].ring, h.seg)),
                                 ![e].seg = SegNext(eps[e].ring, h.seg),
                                 ![e].ccs = IF trb.toggle THEN Toggle(@) ELSE @]
             /\ er' = er
        ELSE /\ trb.ioc => ErHasRoom(er)
             /\ hw' = [hw EXCEPT ![e].deq = @ + 1]
             /\ er' = IF trb.ioc THEN ErPost(er, TransferEvent(e, h.deq, "COMP_SUCCESS"))
                      ELSE er
     /\ UNCHANGED << eps, cur, ret, xhc_state, wd, given, cmd_ring, cmd_hw, regs, irq >>

(* ------------------------------------------------------------------ *)
(* Event dispatch                                                      *)
(* ------------------------------------------------------------------ *)

\* xhci_trb_virt_to_dma(): 0 when trb is not within the segment; a TRB's bus
\* address is its address plus one, so that no TRB has address 0
xhci_trb_virt_to_dma(seg, trb) ==
  IF trb = NULL \/ trb < SegTrbs(seg) \/ trb - SegTrbs(seg) > TRBS_PER_SEGMENT
  THEN 0 ELSE trb + 1

\* the do-while loop of trb_in_td(): the segment that holds suspect_dma, or NULL
RECURSIVE trb_in_td_loop(_, _, _, _, _, _)
trb_in_td_loop(ring, start_seg, cur_seg, start_dma, end_trb, suspect_dma) ==
  IF start_dma = 0 THEN NULL
  ELSE LET end_seg_dma == xhci_trb_virt_to_dma(cur_seg, SegTrbs(cur_seg) + TRBS_PER_SEGMENT - 1)
           end_trb_dma == xhci_trb_virt_to_dma(cur_seg, end_trb)
           next_seg == SegNext(ring, cur_seg)
       IN IF end_trb_dma > 0
          THEN IF start_dma <= end_trb_dma
               THEN IF suspect_dma >= start_dma /\ suspect_dma <= end_trb_dma
                    THEN cur_seg ELSE NULL
               ELSE IF \/ (suspect_dma >= start_dma /\ suspect_dma <= end_seg_dma)
                       \/ (suspect_dma >= SegTrbs(cur_seg) + 1 /\ suspect_dma <= end_trb_dma)
                    THEN cur_seg ELSE NULL
          ELSE IF suspect_dma >= start_dma /\ suspect_dma <= end_seg_dma
               THEN cur_seg
               ELSE IF next_seg = start_seg THEN NULL
                    ELSE trb_in_td_loop(ring, start_seg, next_seg,
                                        xhci_trb_virt_to_dma(next_seg, SegTrbs(next_seg)),
                                        end_trb, suspect_dma)

trb_in_td(ring, start_seg, start_trb, end_trb, suspect_dma) ==
  trb_in_td_loop(ring, start_seg, start_seg, xhci_trb_virt_to_dma(start_seg, start_trb),
                 end_trb, suspect_dma)

(* ------------------------------------------------------------------ *)
(* Commands                                                            *)
(* ------------------------------------------------------------------ *)

\* the state the event handlers and the command queueing functions work on
HcdState == [eps |-> eps, hw |-> hw, er |-> er, cmd_ring |-> cmd_ring,
             cmd_hw |-> cmd_hw, regs |-> regs]

\* no dequeue state
NoDeq == [seg |-> NULL, trb |-> NULL, cycle |-> 0]

\* a command TRB for endpoint e; deq is the new dequeue state of a Set TR
\* Dequeue Pointer command
CmdTrb(type, e, deq) ==
  [type |-> type, cycle |-> 0, chain |-> FALSE, ioc |-> FALSE, toggle |-> FALSE,
   e |-> e, deq |-> deq]

\* queue_command(): [ret, ring]; cmd_ring_reserved_trbs is 0, so that room for
\* one TRB is asked for unless the command must succeed
queue_command(ring, trb, command_must_succeed) ==
  LET r == prepare_ring(ring, "running", IF command_must_succeed THEN 0 ELSE 1)
  IN IF r.ret # "OK" THEN r
     ELSE [ret |-> "OK",
           ring |-> queue_trb(r.ring, FALSE, [trb EXCEPT !.cycle = r.ring.cycle_state])]

\* xhci_queue_stop_endpoint() and xhci_queue_reset_ep(): the state with the
\* command on the command ring, if there was room for it
queue_endpoint_command(S, type, e) ==
  [S EXCEPT !.cmd_ring = queue_command(S.cmd_ring, CmdTrb(type, e, NoDeq), FALSE).ring]

\* xhci_ring_cmd_db()
xhci_ring_cmd_db(S) == [S EXCEPT !.cmd_hw.running = TRUE]

\* queue_set_tr_deq() that queues the command whatever the endpoint's ep_state
queue_set_tr_deq_unchecked(S, e, deq) ==
  IF xhci_trb_virt_to_dma(deq.seg, deq.trb) = 0 THEN S
  ELSE [S EXCEPT !.cmd_ring = queue_command(S.cmd_ring, CmdTrb("TRB_SET_DEQ", e, deq), FALSE).ring]

\* queue_set_tr_deq(): nothing is queued for a dequeue pointer outside its
\* segment or while a Set TR Dequeue Pointer command is pending for the endpoint
queue_set_tr_deq(S, e, deq) ==
  IF xhci_trb_virt_to_dma(deq.seg, deq.trb) = 0 THEN S
  ELSE IF "SET_DEQ_PENDING" \in S.eps[e].ep_state THEN S
  ELSE [S EXCEPT !.cmd_ring = queue_command(S.cmd_ring, CmdTrb("TRB_SET_DEQ", e, deq), FALSE).ring]

\* xhci_queue_new_dequeue_state(): the result of queue_set_tr_deq() is not looked at
xhci_queue_new_dequeue_state(S, e, deq) ==
  [queue_set_tr_deq(S, e, deq) EXCEPT !.eps[e].ep_state = @ \cup {"SET_DEQ_PENDING"}]

\* find_trb_seg(): the segment from start_seg on that holds trb and the cycle
\* state toggled at each Link TRB with LINK_TOGGLE passed; seg is NULL when the
\* walk is back at start_seg
RECURSIVE find_trb_seg_loop(_, _, _, _, _)
find_trb_seg_loop(ring, start_seg, cur_seg, trb, cycle_state) ==
  IF SegTrbs(cur_seg) > trb \/ SegTrbs(cur_seg) + TRBS_PER_SEGMENT - 1 < trb
  THEN LET link == ring.trbs[SegTrbs(cur_seg) + TRBS_PER_SEGMENT - 1]
           cycle == IF link.type = "link" /\ link.toggle THEN Toggle(cycle_state)
                    ELSE cycle_state
       IN IF SegNext(ring, cur_seg) = start_seg THEN [seg |-> NULL, cycle |-> cycle]
          ELSE find_trb_seg_loop(ring, start_seg, SegNext(ring, cur_seg), trb, cycle)
  ELSE [seg |-> cur_seg, cycle |-> cycle_state]

find_trb_seg(ring, start_seg, trb, cycle_state) ==
  find_trb_seg_loop(ring, start_seg, start_seg, trb, cycle_state)

\* xhci_find_new_dequeue_state(): the dequeue state past cur_td, with the cycle
\* state the controller saved in the endpoint context; the ring's own dequeue
\* pointer is moved there.  The result is NoDeq where the code runs into BUG().
xhci_find_new_dequeue_state(S, e, cur_td) ==
  LET ring == S.eps[e].ring
      s1 == find_trb_seg(ring, cur_td.start_seg, S.eps[e].stopped_trb, 0)
      s2 == find_trb_seg(ring, IF s1.seg = NULL THEN 0 ELSE s1.seg, cur_td.last_trb, S.hw[e].ccs)
      last == ring.trbs[cur_td.last_trb]
      n == next_trb(ring, [seg |-> s2.seg, trb |-> cur_td.last_trb])
  IN IF s1.seg = NULL THEN NoDeq
     ELSE IF s2.seg = NULL THEN NoDeq
     ELSE [seg |-> n.seg, trb |-> n.trb,
           cycle |-> IF last.type = "link" /\ last.toggle THEN Toggle(s2.cycle) ELSE s2.cycle]

\* xhci_cleanup_stalled_ring() without XHCI_RESET_EP_QUIRK: move the dequeue
\* pointer past the stopped TD and queue the Set TR Dequeue Pointer command
xhci_cleanup_stalled_ring(S, e) ==
  LET deq == xhci_find_new_dequeue_state(S, e, S.eps[e].stopped_td)
  IN IF deq = NoDeq THEN [S EXCEPT !.regs.error_bitmask = @ \cup {"BUG"}]
     ELSE xhci_queue_new_dequeue_state(
            [S EXCEPT !.eps[e].ring.dequeue = deq.trb, !.eps[e].ring.deq_seg = deq.seg],
            e, deq)

\* xhci_cleanup_halted_endpoint()
xhci_cleanup_halted_endpoint(S, e, td, event_trb) ==
  LET s1 == [S EXCEPT !.eps[e].ep_state = @ \cup {"EP_HALTED"},
                      !.eps[e].stopped_td = td,
                      !.eps[e].stopped_trb = event_trb]
      s2 == queue_endpoint_command(s1, "TRB_RESET_EP", e)
      s3 == xhci_cleanup_stalled_ring(s2, e)
  IN xhci_ring_cmd_db([s3 EXCEPT !.eps[e].stopped_td = NoTd, !.eps[e].stopped_trb = NULL])

(* ------------------------------------------------------------------ *)
(* Event handlers                                                      *)
(* ------------------------------------------------------------------ *)

\* xhci_set_hc_event_deq() writing ERST_EHB as 1 with the dequeue pointer
xhci_set_hc_event_deq_and_ehb(S) ==
  [S EXCEPT !.er.erst_dequeue = S.er.dequeue, !.er.ehb = FALSE]

\* xhci_set_hc_event_deq(): the dequeue pointer is written to the interrupter
\* with ERST_EHB masked off, which leaves the busy bit as it is
xhci_set_hc_event_deq(S) == [S EXCEPT !.er.erst_dequeue = S.er.dequeue]

\* the cleanup label of handle_tx_event() and the end of handle_port_status()
event_cleanup(S) == xhci_set_hc_event_deq([S EXCEPT !.er = inc_deq(@, TRUE)])

\* finish_td(): while (dequeue != td->last_trb) inc_deq(); the walk is cut off
\* after NumSegs * TRBS_PER_SEGMENT steps
RECURSIVE deq_to_last_trb(_, _, _)
deq_to_last_trb(ring, last, fuel) ==
  IF ring.dequeue = last \/ fuel = 0 THEN ring
  ELSE deq_to_last_trb(inc_deq(ring, FALSE), last, fuel - 1)

\* xhci_requires_manual_halt_cleanup()
xhci_requires_manual_halt_cleanup(ctx_state, trb_comp_code) ==
  /\ trb_comp_code \in {"COMP_TX_ERR", "COMP_BABBLE", "COMP_SPLIT_ERR"}
  /\ ctx_state = "halted"

\* the td_cleanup label of finish_td() without urb_priv->td_cnt++
td_cleanup_uncounted(S, e, td) ==
  [S EXCEPT !.eps[e].ring.td_list = Tail(@),
            !.eps[e].cancelled_td_list = SelectSeq(@, LAMBDA t : t # td),
            !.eps[e].ring.transfer_buffer_length[td.urb] = 0,
            !.eps[e].ring.actual_length[td.urb] = 0]

\* the td_cleanup label of finish_td(): the TD, the head of the td_list, is
\* taken off it and, if it is on it, off the cancelled_td_list, and the TDs
\* done of its request are counted.  The count of a request whose TDs are all
\* done is not kept, nor are the lengths of a control request whose TD is done:
\* nothing reads them again.
td_cleanup(S, e, td) ==
  [S EXCEPT !.eps[e].ring.td_list = Tail(@),
            !.eps[e].cancelled_td_list = SelectSeq(@, LAMBDA t : t # td),
            !.eps[e].ring.td_cnt[td.urb] = IF @ + 1 = td.length THEN 0 ELSE @ + 1,
            !.eps[e].ring.transfer_buffer_length[td.urb] = 0,
            !.eps[e].ring.actual_length[td.urb] = 0]

\* the value finish_td() returns for the TD at the head of the td_list: 1 when
\* urb_priv->td_cnt has reached urb_priv->length, 0 for a stopped TD
finish_td_ret(S, e, trb_comp_code) ==
  LET ring == S.eps[e].ring
      td == Head(ring.td_list)
  IN IF trb_comp_code \in {"COMP_STOP_INVAL", "COMP_STOP"} THEN 0
     ELSE IF ring.td_cnt[td.urb] + 1 = td.length THEN 1 ELSE 0

\* finish_td() for the TD at the head of the td_list: a stopped TD stays where
\* it is; a stalled TD is remembered and taken off; a TD that halted the
\* endpoint otherwise is cleaned up after; else the dequeue pointer moves past
\* the TD and the TD is taken off
finish_td(S, e, event_trb, trb_comp_code) ==
  LET ep == S.eps[e]
      td == Head(ep.ring.td_list)
  IN IF trb_comp_code \in {"COMP_STOP_INVAL", "COMP_STOP"}
     THEN [S EXCEPT !.eps[e].stopped_td = td, !.eps[e].stopped_trb = event_trb]
     ELSE IF trb_comp_code = "COMP_STALL"
     THEN td_cleanup([S EXCEPT !.eps[e].stopped_td = td, !.eps[e].stopped_trb = event_trb],
                     e, td)
     ELSE IF xhci_requires_manual_halt_cleanup(ep.ctx_state, trb_comp_code)
     THEN td_cleanup(xhci_cleanup_halted_endpoint(S, e, td, event_trb), e, td)
     ELSE LET r1 == deq_to_last_trb(ep.ring, td.last_trb, ep.ring.segs * TRBS_PER_SEGMENT)
          IN td_cleanup([S EXCEPT !.eps[e].ring = inc_deq(r1, FALSE)], e, td)

\* a - b for unsigned lengths: a difference that wraps around is a length
\* above every buffer length (a + 2^31 - b here, lengths being below 2^31)
USub(a, b) == IF a >= b THEN a - b ELSE (2147483647 - b) + a + 1

\* process_ctrl_td() for the TD at the head of the td_list; residual is
\* TRB_LEN(event->transfer_len).  A stopped TD goes to finish_td(); a stall, or
\* an error that needs the halt cleaned up, records what the data stage
\* transferred, cleans up the halted endpoint and takes the TD off; else an
\* event for a TRB that is neither at the dequeue pointer nor the last TRB
\* records the actual length and waits for the status stage, and an event for
\* another TRB finishes the TD, the one for the last TRB with the whole buffer
\* as actual length if no data stage event recorded one.
process_ctrl_td(S, e, event_trb, trb_comp_code, residual) ==
  LET ep == S.eps[e]
      ring == ep.ring
      td == Head(ring.td_list)
      transfer_buffer_length == ring.transfer_buffer_length[td.urb]
      middle == event_trb # ring.dequeue /\ event_trb # td.last_trb
  IN IF trb_comp_code \in {"COMP_STOP_INVAL", "COMP_STOP"}
     THEN finish_td(S, e, event_trb, trb_comp_code)
     ELSE IF \/ trb_comp_code = "COMP_STALL"
             \/ /\ trb_comp_code \notin {"COMP_SUCCESS", "COMP_SHORT_TX"}
                /\ xhci_requires_manual_halt_cleanup(ep.ctx_state, trb_comp_code)
     THEN LET s1 == [S EXCEPT !.eps[e].ring.actual_length[td.urb] =
                                IF middle THEN USub(transfer_buffer_length, residual) ELSE 0]
          IN td_cleanup(xhci_cleanup_halted_endpoint(s1, e, td, event_trb), e, td)
     ELSE IF middle
     THEN [S EXCEPT !.eps[e].ring.actual_length[td.urb] =
                      USub(transfer_buffer_length, residual)]
     ELSE IF event_trb # ring.dequeue /\ ring.actual_length[td.urb] = 0
     THEN finish_td([S EXCEPT !.eps[e].ring.actual_length[td.urb] = transfer_buffer_length],
                    e, event_trb, trb_comp_code)
     ELSE finish_td(S, e, event_trb, trb_comp_code)

\* the call of process_ctrl_td(), process_isoc_td() or process_bulk_intr_td()
\* in handle_tx_event(), for the TD at the head of the td_list; the latter two
\* go to finish_td()
process_td(S, event) ==
  IF Head(S.eps[event.e].ring.td_list).kind = "ctrl"
  THEN process_ctrl_td(S, event.e, event.trb, event.code, event.len)
  ELSE finish_td(S, event.e, event.trb, event.code)

\* the completion codes handle_tx_event() has a case for
KnownCodes ==
  { "COMP_SUCCESS", "COMP_SHORT_TX", "COMP_STOP", "COMP_STOP_INVAL", "COMP_STALL",
    "COMP_TRB_ERR", "COMP_SPLIT_ERR", "COMP_TX_ERR", "COMP_BABBLE", "COMP_DB_ERR",
    "COMP_BW_OVER", "COMP_BUFF_OVER", "COMP_UNDERRUN", "COMP_OVERRUN", "COMP_MISSED_INT" }

\* a transfer event handler that takes every event for the TD at the head of the
\* td_list
handle_tx_event_unmatched(S, event) ==
  IF S.eps[event.e].ring.td_list = << >>
  THEN [s |-> event_cleanup(S), ret |-> "OK"]
  ELSE [s |-> event_cleanup(process_td(S, event)), ret |-> "OK"]

\* handle_tx_event(): [s, ret].  Only the TD at the head of the td_list is
\* looked at, from the ring's dequeue pointer to the TD's last TRB.
handle_tx_event(S, event) ==
  LET ep == S.eps[event.e]
      ring == ep.ring
  IN IF event.code \in {"COMP_UNDERRUN", "COMP_OVERRUN"}
     THEN [s |-> event_cleanup(S), ret |-> "OK"]
     ELSE IF ep.ctx_state = "disabled" THEN [s |-> S, ret |-> "ENODEV"]
     ELSE IF ring.td_list = << >> THEN [s |-> event_cleanup(S), ret |-> "OK"]
     ELSE IF trb_in_td(ring, ring.deq_seg, ring.dequeue, Head(ring.td_list).last_trb,
                       event.trb + 1) = NULL
          THEN [s |-> S, ret |-> "ESHUTDOWN"]
     ELSE IF event.code \notin KnownCodes THEN [s |-> S, ret |-> "ENODEV"]
     ELSE LET s1 == IF event.code = "COMP_STALL"
                    THEN [S EXCEPT !.eps[event.e].ep_state = @ \cup {"EP_HALTED"}]
                    ELSE S
          IN [s |-> event_cleanup(process_td(s1, event)),
              ret |-> "OK"]

\* a completion handler that takes every event for the command at the command
\* ring's dequeue pointer
handle_cmd_completion_unmatched(S, event) ==
  [S EXCEPT !.cmd_ring = inc_deq(@, FALSE),
            !.regs.g_cmd_status = IF event.code = "COMP_SUCCESS" THEN "CMD_DONE" ELSE "CMD_FAIL"]

\* handle_cmd_completion(): an event for a TRB other than the one at the command
\* ring's dequeue pointer sets a bit of error_bitmask and nothing else; a Command
\* Ring Stopped event at a TRB that is no known command leaves the dequeue
\* pointer where it is; else the dequeue pointer moves on by one TRB
handle_cmd_completion(S, event) ==
  LET ring == S.cmd_ring
      cmd_dequeue_dma == xhci_trb_virt_to_dma(ring.deq_seg, ring.dequeue)
      trb == ring.trbs[ring.dequeue]
      status == IF event.code = "COMP_SUCCESS" THEN "CMD_DONE" ELSE "CMD_FAIL"
      s1 == CASE trb.type = "TRB_CMD_NOOP" -> S
              [] trb.type = "TRB_STOP_RING" -> [S EXCEPT !.regs.g_cmd_status = status]
              [] trb.type = "TRB_SET_DEQ" ->
                   IF event.code = "COMP_SUCCESS"
                   THEN [S EXCEPT !.eps[trb.e].ep_state = @ \ {"SET_DEQ_PENDING"},
                                  !.regs.g_cmd_status = "CMD_DONE"]
                   ELSE [S EXCEPT !.regs.g_cmd_status = "CMD_FAIL"]
              [] trb.type = "TRB_RESET_EP" ->
                   [S EXCEPT !.eps[trb.e].ep_state = @ \ {"EP_HALTED"},
                             !.regs.g_cmd_status = "CMD_DONE"]
              [] OTHER -> [S EXCEPT !.regs.error_bitmask = @ \cup {6},
                                    !.regs.g_cmd_status = "CMD_FAIL"]
  IN IF cmd_dequeue_dma = 0 THEN [S EXCEPT !.regs.error_bitmask = @ \cup {4}]
     ELSE IF event.trb + 1 # cmd_dequeue_dma
     THEN [S EXCEPT !.regs.error_bitmask = @ \cup {5}]
     ELSE IF /\ trb.type \notin {"TRB_CMD_NOOP", "TRB_STOP_RING", "TRB_SET_DEQ", "TRB_RESET_EP"}
             /\ event.code = "COMP_CMD_STOP"
     THEN [S EXCEPT !.regs.g_cmd_status = "CMD_DONE"]
     ELSE [s1 EXCEPT !.cmd_ring = inc_deq(@, FALSE)]

\* the root hub has a port object for the ports 1 .. RH_PORT_NUM
RH_PORT_NUM == 1

\* get_port_index(): the index of the port object of a port
get_port_index(port_id) == port_id - 1

\* handle_port_status(): the event of a port without a port object is left
\* where it is
handle_port_status(S, event) ==
  IF get_port_index(event.trb) >= RH_PORT_NUM THEN S
  ELSE event_cleanup(S)

\* xhci_handle_event() without the test of the cycle bit: the TRB at the dequeue
\* pointer is handled whoever owns it
xhci_handle_event_unowned(S, dying) ==
  LET event == S.er.trbs[S.er.dequeue]
      tx == handle_tx_event(S, event)
      s1 == CASE event.type = "completion" -> handle_cmd_completion(S, event)
              [] event.type = "port" -> handle_port_status(S, event)
              [] event.type = "transfer" -> tx.s
              [] OTHER -> S
      update_ptrs == CASE event.type = "port" -> FALSE
                       [] event.type = "transfer" -> tx.ret # "OK"
                       [] OTHER -> TRUE
  IN IF dying THEN [s |-> s1, more |-> FALSE]
     ELSE IF update_ptrs THEN [s |-> [s1 EXCEPT !.er = inc_deq(@, TRUE)], more |-> TRUE]
     ELSE [s |-> s1, more |-> TRUE]

\* xhci_handle_event(): [s, more]; more is the return value > 0.  Of
\* error_bitmask only the bits the command completion handler sets are kept.
xhci_handle_event(S, dying) ==
  LET event == S.er.trbs[S.er.dequeue]
  IN IF event.cycle # S.er.cycle_state
     THEN [s |-> S, more |-> FALSE]
     ELSE LET tx == handle_tx_event(S, event)
              s1 == CASE event.type = "completion" -> handle_cmd_completion(S, event)
                      [] event.type = "port" -> handle_port_status(S, event)
                      [] event.type = "transfer" -> tx.s
                      [] OTHER -> S
              update_ptrs == CASE event.type = "port" -> FALSE
                               [] event.type = "transfer" -> tx.ret # "OK"
                               [] OTHER -> TRUE
          IN IF dying THEN [s |-> s1, more |-> FALSE]
             ELSE IF update_ptrs THEN [s |-> [s1 EXCEPT !.er = inc_deq(@, TRUE)], more |-> TRUE]
             ELSE [s |-> s1, more |-> TRUE]

\* an event the controller has written and software has not handled
EventPending == er.trbs[er.dequeue].cycle = er.cycle_state

\* the lock is free: no builder call, no watchdog call and no interrupt handler
\* call is holding it
LockFree ==
  cur.pc = "idle" /\ wd.pc \in {"idle", "halt", "giveback", "dead"} /\ irq.pc = "idle"

\* the state variables take the values of a state of the handlers
Becomes(S) ==
  /\ eps' = S.eps
  /\ er' = S.er
  /\ cmd_ring' = S.cmd_ring
  /\ cmd_hw' = S.cmd_hw
  /\ regs' = S.regs

\* the end of xhci_mtk_irq(): the dequeue pointer is written to the interrupter
\* if it has moved, together with ERST_EHB as 1, which clears the busy bit
irq_return(S, event_ring_deq) ==
  [S EXCEPT !.er.erst_dequeue = IF event_ring_deq # S.er.dequeue THEN S.er.dequeue ELSE @,
            !.er.ehb = FALSE]

\* while (xhci_handle_event(xhci) > 0) {}: [s, more]; more when the loop is at a
\* call that returns > 0 and leaves the event where it is
RECURSIVE drain_events(_)
drain_events(S) ==
  LET again(r) == IF r.more /\ r.s.er.dequeue # S.er.dequeue THEN drain_events(r.s) ELSE r
  IN again(xhci_handle_event(S, FALSE))

\* xhci_mtk_irq() with the lock held from the entry to the return: with the
\* controller dying the interrupt is acknowledged, the busy bit cleared and the
\* call returns; else the events on the event ring are handled until none is left
xhci_mtk_irq ==
  /\ LockFree
  /\ EventPending
  /\ IF "XHCI_STATE_DYING" \in xhc_state
     THEN /\ er' = [er EXCEPT !.ehb = FALSE]
          /\ UNCHANGED << eps, cmd_ring, cmd_hw, regs, irq >>
     ELSE \E r \in {drain_events(HcdState)} :
            IF r.more
            THEN Becomes(r.s) /\ irq' = [pc |-> "events", event_ring_deq |-> er.dequeue]
            ELSE \E s \in {irq_return(r.s, er.dequeue)} : Becomes(s) /\ irq' = irq
  /\ UNCHANGED << hw, cur, ret, xhc_state, wd, given >>

\* xhci_mtk_irq() up to the loop over the events, the controller writing events
\* while the handler runs
xhci_mtk_irq_entry ==
  /\ LockFree
  /\ EventPending
  /\ IF "XHCI_STATE_DYING" \in xhc_state
     THEN /\ er' = [er EXCEPT !.ehb = FALSE]
          /\ irq' = irq
     ELSE /\ irq' = [pc |-> "events", event_ring_deq |-> er.dequeue]
          /\ er' = er
  /\ UNCHANGED << eps, hw, cur, ret, xhc_state, wd, given, cmd_ring, cmd_hw, regs >>

\* one call of xhci_handle_event() by the loop of xhci_mtk_irq() and, when it
\* returns 0, the rest of xhci_mtk_irq()
xhci_mtk_irq_event ==
  /\ irq.pc = "events"
  /\ \E r \in {xhci_handle_event(HcdState, "XHCI_STATE_DYING" \in xhc_state)} :
       IF r.more
       THEN Becomes(r.s) /\ irq' = irq
       ELSE \E s \in {irq_return(r.s, irq.event_ring_deq)} : Becomes(s) /\ irq' = IrqIdle
  /\ UNCHANGED << hw, cur, ret, xhc_state, wd, given >>

(* ------------------------------------------------------------------ *)
(* Client submissions                                                  *)
(* ------------------------------------------------------------------ *)

BulkUrb(dma, len, zp) ==
  [NoUrb EXCEPT !.kind = "bulk", !.transfer_dma = dma, !.len = len, !.zero_packet = zp]

SgUrb(sg, len, zp) ==
  [NoUrb EXCEPT !.kind = "bulk", !.sg = sg, !.len = len, !.zero_packet = zp]

CtrlUrb(len, zp) ==
  [NoUrb EXCEPT !.kind = "ctrl", !.len = len, !.zero_packet = zp, !.maxp = 64]

IsocUrb(packets) ==
  [NoUrb EXCEPT !.kind = "isoc", !.packets = packets]

\* the requests clients submit: one TRB, two TRBs across a 64KB boundary, a
\* zero-length packet after a full packet, scatter-gather lists with and
\* without URB_ZERO_PACKET, control transfers without and with a data stage,
\* isochronous requests of one and of two packets
BulkUrbs ==
  { BulkUrb(0, 512, FALSE), BulkUrb(65024, 1024, FALSE), BulkUrb(0, 512, TRUE),
    SgUrb(<< [addr |-> 0, len |-> 512] >>, 512, TRUE),
    SgUrb(<< [addr |-> 65024, len |-> 512], [addr |-> 131072, len |-> 512] >>, 1024, FALSE) }

CtrlUrbs == { CtrlUrb(0, FALSE), CtrlUrb(64, TRUE) }

IsocUrbs ==
  { IsocUrb(<< [offset |-> 0, length |-> 1024], [offset |-> 1024, length |-> 1024] >>) }

\* the TDs of a request
NumTds(urb) == IF urb.kind = "isoc" THEN Len(urb.packets) ELSE 1

\* a client has a TD object for each TD of the request
HasTds(e, urb) == Len(eps[e].ring.td_list) + NumTds(urb) <= MaxTDs

\* the call of a builder: up to and including prepare_transfer()
Submit(e, urb) ==
  /\ LockFree
  /\ HasTds(e, urb)
  /\ LET r == builder_start(eps[e].ring, eps[e].ctx_state, e, urb)
     IN /\ eps' = [eps EXCEPT ![e].ring = r.ring]
        /\ cur' = r.cur
        /\ ret' = r.ret
  /\ UNCHANGED << hw, er, xhc_state, wd, given, cmd_ring, cmd_hw, regs, irq >>

xhci_queue_bulk_tx(e) == \E urb \in BulkUrbs : Submit(e, urb)

xhci_queue_ctrl_tx(e) == \E urb \in CtrlUrbs : Submit(e, urb)

xhci_queue_isoc_tx_prepare(e) == \E urb \in IsocUrbs : Submit(e, urb)

\* the builder call in progress writes its next TRB or, after the last one,
\* gives the first TRB to the controller and rings the doorbell
BuilderStep ==
  /\ cur.pc # "idle"
  /\ LET e == cur.e
         r == builder_step(eps[e].ring, eps[e], cur)
     IN /\ eps' = [eps EXCEPT ![e].ring = r.ring]
        /\ cur' = r.cur
        /\ ret' = r.ret
        /\ hw' = IF r.doorbell THEN [hw EXCEPT ![e].running = TRUE] ELSE hw
  /\ UNCHANGED << er, xhc_state, wd, given, cmd_ring, cmd_hw, regs, irq >>

(* ------------------------------------------------------------------ *)
(* One endpoint: builders, controller and event handler                *)
(* ------------------------------------------------------------------ *)

Next ==
  \/ xhci_queue_bulk_tx(0)
  \/ xhci_queue_ctrl_tx(0)
  \/ xhci_queue_isoc_tx_prepare(0)
  \/ BuilderStep
  \/ HwStep(0)
  \/ xhci_mtk_irq

Spec == Init /\ [][Next]_vars

(* ------------------------------------------------------------------ *)
(* Properties of the ring cursors                                      *)
(* ------------------------------------------------------------------ *)

\* the position of a TRB among the TRBs of a ring that are not Link TRBs
Rank(trb) == (trb \div (TRBS_PER_SEGMENT + 1)) * (TRBS_PER_SEGMENT - 1) + (trb % (TRBS_PER_SEGMENT + 1))

\* the enqueue pointer, moved past the Link TRB if it rests on one
EnqueueSlot(ring) == SkipLinks(ring, [seg |-> ring.enq_seg, trb |-> ring.enqueue]).trb

\* the slots other than Link TRBs from the enqueue pointer up to the dequeue
\* pointer; all of them when the two are equal
FreeBetween(ring) ==
  IF EnqueueSlot(ring) = ring.dequeue THEN Usable
  ELSE (Rank(ring.dequeue) - Rank(EnqueueSlot(ring))) % Usable

\* C1: whatever the builders enqueue after prepare_ring() has admitted them and
\* whatever is dequeued, at least one slot that is not a Link TRB stays free: the
\* TRBs enqueued and not yet dequeued never fill the ring.
C1_SpareSlotKept == \A e \in Eps : eps[e].ring.out <= Usable - 1

HwExecutes(e) == hw'[e].deq # hw[e].deq

\* C4: the controller never executes a TRB of a request whose builder has not
\* yet reached giveback_first_trb(): the first TRB carries the inverted cycle
\* bit until all the other TRBs are written.
C4_NoTrbOfRequestBeingBuilt ==
  [][\A e \in Eps :
       (HwExecutes(e) /\ cur.pc # "idle" /\ cur.e = e) => hw[e].deq \notin cur.written]_vars

C4_Witness ==
  /\ cur.pc = "giveback"
  /\ hw[cur.e].running
  /\ hw[cur.e].deq = cur.start_trb
  /\ Cardinality(cur.written) > 1

\* the builder call in progress writes a TRB with queue_trb() in this step
QueueTrbStep == cur.pc \notin {"idle", "giveback", "isoc_td"} /\ cur' # cur

\* a builder call passes prepare_ring() in this step
PrepareRingStep ==
  \/ cur.pc = "idle" /\ cur'.pc # "idle"
  \/ cur.pc = "isoc_td" /\ cur'.pc = "isoc_trb"

\* the slot after the enqueue pointer is a Link TRB
OntoLink(ring) == last_trb(ring, ring.enq_seg, ring.enqueue + 1)

NextSegTrbs(ring, seg) == SegTrbs(SegNext(ring, seg))

\* C5 as stated: when inc_enq() steps onto a Link TRB with more_trbs_coming
\* set, that call leaves the Link TRB's cycle bit as it is and the enqueue
\* pointer on the Link TRB.
C5_LinkKeptWhileMoreComing ==
  [][\A e \in Eps :
       LET ring == eps[e].ring
           link == ring.enqueue + 1
       IN (QueueTrbStep /\ cur.e = e /\ OntoLink(ring) /\ cur'.more)
          => /\ eps'[e].ring.trbs[link].cycle = ring.trbs[link].cycle
             /\ eps'[e].ring.enqueue = link]_vars

\* C5, amended: when inc_enq() steps onto a Link TRB, it flips the Link TRB's
\* cycle bit in that call if more TRBs are coming or the TRB just written is
\* chained; with neither it leaves the bit as it is and the pointer on the Link
\* TRB, and the prepare_ring() of the next request flips it.
C5_LinkKeptWhenNoMoreComing ==
  /\ [][\A e \in Eps :
          LET ring == eps[e].ring
              link == ring.enqueue + 1
          IN (QueueTrbStep /\ cur.e = e /\ OntoLink(ring))
             => IF cur'.more \/ eps'[e].ring.trbs[ring.enqueue].chain
                THEN /\ eps'[e].ring.trbs[link].cycle = Toggle(ring.trbs[link].cycle)
                     /\ eps'[e].ring.enqueue # link
                ELSE /\ eps'[e].ring.trbs[link].cycle = ring.trbs[link].cycle
                     /\ eps'[e].ring.enqueue = link]_vars
  /\ [][\A e \in Eps :
          LET ring == eps[e].ring
          IN (PrepareRingStep /\ cur'.e = e /\ enqueue_is_link_trb(ring))
             => /\ eps'[e].ring.trbs[ring.enqueue].cycle = Toggle(ring.trbs[ring.enqueue].cycle)
                /\ ~enqueue_is_link_trb(eps'[e].ring)]_vars

C5_Witness ==
  /\ cur.pc \notin {"idle", "giveback"}
  /\ cur.more
  /\ \E seg \in 0 .. (NumSegs - 1) :
       /\ eps[cur.e].ring.enqueue = NextSegTrbs(eps[cur.e].ring, seg)
       /\ (SegTrbs(seg) + TRBS_PER_SEGMENT - 2) \in cur.written
       /\ eps[cur.e].ring.trbs[SegTrbs(seg) + TRBS_PER_SEGMENT - 1].cycle
            = eps[cur.e].ring.trbs[SegTrbs(seg) + TRBS_PER_SEGMENT - 2].cycle

\* inc_deq() is about to step onto the end of a segment
DeqOntoLink(ring) == last_trb(ring, ring.deq_seg, ring.dequeue + 1)

\* C6 as stated: when inc_enq() or inc_deq() moves a pointer onto a Link TRB,
\* the pointer ends on the first TRB of the next segment and cycle_state is
\* flipped exactly when the Link TRB carries the toggle flag.
C6_LinkSkippedAndToggled ==
  [][\A e \in Eps :
       LET ring == eps[e].ring
       IN /\ (QueueTrbStep /\ cur.e = e /\ OntoLink(ring))
             => /\ eps'[e].ring.enqueue = NextSegTrbs(ring, ring.enq_seg)
                /\ (eps'[e].ring.cycle_state # ring.cycle_state)
                     <=> ring.trbs[ring.enqueue + 1].toggle
          /\ (ring.out > 0 /\ DeqOntoLink(ring))
             => /\ inc_deq(ring, FALSE).dequeue = NextSegTrbs(ring, ring.deq_seg)
                /\ (inc_deq(ring, FALSE).cycle_state # ring.cycle_state)
                     <=> ring.trbs[ring.dequeue + 1].toggle]_vars

\* C6, amended: inc_deq() always ends on the first TRB of the next segment and,
\* on a command or transfer ring, never changes cycle_state; on the event ring
\* it flips cycle_state exactly at the end of the last segment. inc_enq() ends
\* on the first TRB of the next segment and flips cycle_state exactly when the
\* Link TRB carries the toggle flag, unless no more TRBs are coming and the TRB
\* just written is not chained: then it stays on the Link TRB and leaves
\* cycle_state as it is.
C6_LinkSkippedOrKept ==
  [][/\ \A e \in Eps :
          LET ring == eps[e].ring
          IN /\ (QueueTrbStep /\ cur.e = e /\ OntoLink(ring))
                => IF cur'.more \/ eps'[e].ring.trbs[ring.enqueue].chain
                   THEN /\ eps'[e].ring.enqueue = NextSegTrbs(ring, ring.enq_seg)
                        /\ (eps'[e].ring.cycle_state # ring.cycle_state)
                             <=> ring.trbs[ring.enqueue + 1].toggle
                   ELSE /\ eps'[e].ring.enqueue = ring.enqueue + 1
                        /\ eps'[e].ring.cycle_state = ring.cycle_state
             /\ (ring.out > 0 /\ DeqOntoLink(ring))
                => /\ inc_deq(ring, FALSE).dequeue = NextSegTrbs(ring, ring.deq_seg)
                   /\ inc_deq(ring, FALSE).cycle_state = ring.cycle_state
     /\ (EventPending /\ DeqOntoLink(er))
          => /\ inc_deq(er, TRUE).dequeue = NextSegTrbs(er, er.deq_seg)
             /\ (inc_deq(er, TRUE).cycle_state # er.cycle_state)
                  <=> (SegNext(er, er.deq_seg) = 0)]_vars

C6_Witness ==
  /\ eps[0].ring.out > 0
  /\ DeqOntoLink(eps[0].ring)
  /\ eps[0].ring.trbs[eps[0].ring.dequeue + 1].toggle
  /\ enqueue_is_link_trb(eps[0].ring)
  /\ cur.pc = "giveback"

SubmitStep == cur.pc = "idle" /\ ret' # "none" /\ UNCHANGED << hw, er, xhc_state, wd, given, cmd_ring, cmd_hw, regs, irq >>

\* C8: a builder whose request the ring has no room for returns -ENOMEM and
\* leaves the enqueue pointer, cycle_state, the TRBs and the td_list as they
\* were; the room for all the TDs of an isochronous request is checked before
\* the first TD, so no later TD of it fails for lack of room.
C8_NoRoomFailsAtomically ==
  [][/\ (SubmitStep /\ ret' = "ENOMEM") => (eps' = eps /\ cur' = Idle)
     /\ cur.pc # "idle" => ret' # "ENOMEM"]_vars

C8_Witness ==
  /\ ret = "ENOMEM"
  /\ cur = Idle
  /\ eps[0].ring.out > 0

(* ------------------------------------------------------------------ *)
(* Cancellation and the Stop-Endpoint watchdog                         *)
(* ------------------------------------------------------------------ *)

\* the request clients submit while requests are being cancelled
WdUrbs == { BulkUrb(0, 512, FALSE) }

\* clients submit to an endpoint until its ring's enqueue pointer has reached
\* the end of the first segment
FirstSegment(ring) == ring.enq_seg = 0 /\ ~enqueue_is_link_trb(ring)

SubmitBulk(e) ==
  /\ FirstSegment(eps[e].ring)
  /\ \E urb \in WdUrbs : Submit(e, urb)

\* the elements of a sequence
Range(s) == { s[i] : i \in 1 .. Len(s) }

\* the TDs on an endpoint's td_list and cancelled_td_list
Tds(ep) == Range(ep.ring.td_list) \cup Range(ep.cancelled_td_list)

\* A client cancels a request that is on the td_list: the TD goes on the
\* cancelled_td_list and, unless a Stop Endpoint command is already pending for
\* the endpoint, the command is issued and its watchdog timer is armed.  The
\* controller does not answer the command.  Nothing is cancelled once the
\* controller is dying.
xhci_urb_dequeue(e) ==
  /\ LockFree
  /\ "XHCI_STATE_DYING" \notin xhc_state
  /\ \E i \in 1 .. Len(eps[e].ring.td_list) :
       LET td == eps[e].ring.td_list[i]
           pending == "EP_HALT_PENDING" \in eps[e].ep_state
       IN /\ td \notin Range(eps[e].cancelled_td_list)
          /\ eps' = [eps EXCEPT ![e].cancelled_td_list = Append(@, td),
                                ![e].ep_state = @ \cup {"EP_HALT_PENDING"},
                                ![e].stop_cmds_pending = IF pending THEN @ ELSE @ + 1,
                                ![e].stop_cmd_timer = TRUE]
  /\ UNCHANGED << hw, er, cur, ret, xhc_state, wd, given, cmd_ring, cmd_hw, regs, irq >>

\* the watchdog without its test of XHCI_STATE_DYING
xhci_stop_endpoint_command_watchdog_untested(e) ==
  /\ LockFree
  /\ eps[e].stop_cmd_timer
  /\ LET pending == eps[e].stop_cmds_pending - 1
     IN /\ eps' = [eps EXCEPT ![e].stop_cmds_pending = pending,
                              ![e].stop_cmd_timer = FALSE]
        /\ IF ~(pending = 0 /\ "EP_HALT_PENDING" \in eps[e].ep_state)
           THEN UNCHANGED << xhc_state, wd >>
           ELSE /\ xhc_state' = xhc_state \cup {"XHCI_STATE_DYING"}
                /\ wd' = [pc |-> "halt", j |-> 0,
                          doomed |-> [k \in Eps |-> Tds(eps[k])]]
  /\ UNCHANGED << hw, er, cur, ret, given, cmd_ring, cmd_hw, regs, irq >>

\* xhci_stop_endpoint_command_watchdog() up to the first spin_unlock(): the call
\* returns when the controller is already dying or no command is pending, and
\* otherwise marks the controller dying, quiesces it and drops the lock to halt it
xhci_stop_endpoint_command_watchdog(e) ==
  /\ LockFree
  /\ eps[e].stop_cmd_timer
  /\ LET pending == eps[e].stop_cmds_pending - 1
     IN /\ eps' = [eps EXCEPT ![e].stop_cmds_pending = pending,
                              ![e].stop_cmd_timer = FALSE]
        /\ IF \/ "XHCI_STATE_DYING" \in xhc_state
              \/ ~(pending = 0 /\ "EP_HALT_PENDING" \in eps[e].ep_state)
           THEN UNCHANGED << xhc_state, wd >>
           ELSE /\ xhc_state' = xhc_state \cup {"XHCI_STATE_DYING"}
                /\ wd' = [pc |-> "halt", j |-> 0,
                          doomed |-> [k \in Eps |-> Tds(eps[k])]]
  /\ UNCHANGED << hw, er, cur, ret, given, cmd_ring, cmd_hw, regs, irq >>

\* after xhci_quiesce() cleared its run bit the controller halts at some time,
\* or never does
HcHalted ==
  /\ "XHCI_STATE_DYING" \in xhc_state
  /\ "STS_HALT" \notin xhc_state
  /\ xhc_state' = xhc_state \cup {"STS_HALT"}
  /\ UNCHANGED << eps, hw, er, cur, ret, wd, given, cmd_ring, cmd_hw, regs, irq >>

\* xhci_halt() has returned, whatever it returned, and the watchdog takes the
\* lock again
xhci_halt_done ==
  /\ wd.pc = "halt"
  /\ cur.pc = "idle"
  /\ irq.pc = "idle"
  /\ wd' = [wd EXCEPT !.pc = "sweep"]
  /\ UNCHANGED << eps, hw, er, cur, ret, xhc_state, given, cmd_ring, cmd_hw, regs, irq >>

\* One round of the loops over the endpoints: the first TD of the td_list is
\* taken off it and off the cancelled_td_list, else the first TD of the
\* cancelled_td_list is taken off, and is given back with -ESHUTDOWN; with both
\* lists empty the loop goes to the next endpoint and after the last endpoint
\* the watchdog drops the lock and reports the controller dead.
watchdog_kill_urbs ==
  /\ wd.pc = "sweep"
  /\ LET ep == eps[wd.j]
     IN IF ep.ring.td_list # << >>
        THEN LET cur_td == Head(ep.ring.td_list)
             IN /\ eps' = [eps EXCEPT ![wd.j].ring.td_list = Tail(@),
                                      ![wd.j].cancelled_td_list = SelectSeq(@, LAMBDA t : t # cur_td)]
                /\ given' = [given EXCEPT ![wd.j] = Append(@, cur_td)]
                /\ wd' = [wd EXCEPT !.pc = "giveback"]
        ELSE IF ep.cancelled_td_list # << >>
        THEN LET cur_td == Head(ep.cancelled_td_list)
             IN /\ eps' = [eps EXCEPT ![wd.j].cancelled_td_list = Tail(@)]
                /\ given' = [given EXCEPT ![wd.j] = Append(@, cur_td)]
                /\ wd' = [wd EXCEPT !.pc = "giveback"]
        ELSE /\ wd' = IF wd.j + 1 < NumEps THEN [wd EXCEPT !.j = @ + 1]
                      ELSE [wd EXCEPT !.pc = "dead"]
             /\ UNCHANGED << eps, given >>
  /\ UNCHANGED << hw, er, cur, ret, xhc_state, cmd_ring, cmd_hw, regs, irq >>

\* xhci_giveback_urb_in_irq() gave the request back with the lock dropped and
\* takes the lock again
xhci_giveback_urb_in_irq ==
  /\ wd.pc = "giveback"
  /\ cur.pc = "idle"
  /\ irq.pc = "idle"
  /\ wd' = [wd EXCEPT !.pc = "sweep"]
  /\ UNCHANGED << eps, hw, er, cur, ret, xhc_state, given, cmd_ring, cmd_hw, regs, irq >>

NextWd ==
  \/ \E e \in Eps : SubmitBulk(e)
  \/ BuilderStep
  \/ \E e \in Eps : HwStep(e)
  \/ xhci_mtk_irq
  \/ \E e \in Eps : xhci_urb_dequeue(e)
  \/ \E e \in Eps : xhci_stop_endpoint_command_watchdog(e)
  \/ HcHalted
  \/ xhci_halt_done
  \/ watchdog_kill_urbs
  \/ xhci_giveback_urb_in_irq

SpecWd == Init /\ [][NextWd]_vars

\* how often x occurs in the sequence s
Count(s, x) == Cardinality({ i \in 1 .. Len(s) : s[i] = x })

\* C9: when the watchdog has fired with a stop command pending, the controller
\* is dying and, as the watchdog finishes, every TD that was on an endpoint's
\* td_list or cancelled_td_list has been given back with -ESHUTDOWN exactly
\* once, and every endpoint's td_list and cancelled_td_list is empty.
C9_EveryTdKilledOnce ==
  [][(wd.pc = "sweep" /\ wd'.pc = "dead") =>
       /\ "XHCI_STATE_DYING" \in xhc_state
       /\ \A e \in Eps :
            /\ eps'[e].ring.td_list = << >>
            /\ eps'[e].cancelled_td_list = << >>
            /\ \A td \in wd.doomed[e] : Count(given'[e], td) = 1]_vars

\* the watchdog has finished after giving back a TD that was on both lists
C9_Witness ==
  /\ wd.pc = "dead"
  /\ \E e \in Eps : wd.doomed[e] # {} /\ Range(given[e]) = wd.doomed[e]

\* what software does to the rings: the TRBs, the cursors and the cycle state of
\* every transfer ring, and the dequeue cursor of the event ring
RingOps(E, r) ==
  << [e \in Eps |-> << E[e].ring.trbs, E[e].ring.enqueue, E[e].ring.enq_seg,
                       E[e].ring.dequeue, E[e].ring.deq_seg, E[e].ring.cycle_state >>],
     r.dequeue, r.deq_seg, r.cycle_state >>

\* C10: once the controller is dying no step puts a TD on a ring, writes a TRB,
\* moves a ring cursor or rings a doorbell.
C10_NoRingOperationOnceDying ==
  [][("XHCI_STATE_DYING" \in xhc_state) =>
       /\ RingOps(eps', er') = RingOps(eps, er)
       /\ \A e \in Eps :
            /\ Len(eps'[e].ring.td_list) <= Len(eps[e].ring.td_list)
            /\ hw'[e].running => hw[e].running]_vars

\* a builder call is under way while the controller is dying
C10_Witness ==
  /\ "XHCI_STATE_DYING" \in xhc_state
  /\ cur.pc # "idle"

(* ------------------------------------------------------------------ *)
(* Endpoints that stop and halt, commands, port events                 *)
(* ------------------------------------------------------------------ *)

\* the completion codes the controller gives a TRB it executes
TxCodes == { "COMP_SUCCESS", "COMP_STALL", "COMP_TX_ERR" }

CommandEvent(trb, code) ==
  [cycle |-> 0, type |-> "completion", e |-> 0, trb |-> trb, code |-> code, len |-> 0]

PortEvent(port_id) ==
  [cycle |-> 0, type |-> "port", e |-> 0, trb |-> port_id, code |-> "COMP_SUCCESS", len |-> 0]

\* the controller writes at most MaxEvents events in one behaviour; the
\* producer cycle state tells the first lap of the event ring from the second
ErWithinBound(r) ==
  (IF r.pcs = 1 THEN 0 ELSE TRBS_PER_SEGMENT * ERST_NUM_SEGS) + r.enqueue < MaxEvents

\* The controller executes the TRB at the dequeue pointer of an endpoint that is
\* running or was stopped and has had its doorbell rung.  A TRB that completes
\* with an error halts the endpoint and posts a transfer event whatever its IOC
\* bit; the dequeue pointer stays at the TRB.
HcStep(e, code) ==
  LET h == hw[e]
      trb == eps[e].ring.trbs[h.deq]
  IN /\ h.running
     /\ "STS_HALT" \notin xhc_state
     /\ eps[e].ctx_state \in {"running", "stopped"}
     /\ IF trb.cycle # h.ccs
        THEN /\ code = "COMP_SUCCESS"
             /\ hw' = [hw EXCEPT ![e].running = FALSE]
             /\ UNCHANGED << eps, er >>
        ELSE IF trb.type = "link"
        THEN /\ code = "COMP_SUCCESS"
             /\ hw' = [hw EXCEPT ![e].deq = SegTrbs(SegNext(eps[e].ring, h.seg)),
                                 ![e].seg = SegNext(eps[e].ring, h.seg),
                                 ![e].ccs = IF trb.toggle THEN Toggle(@) ELSE @]
             /\ UNCHANGED << eps, er >>
        ELSE IF code = "COMP_SUCCESS"
        THEN /\ trb.ioc => ErHasRoom(er) /\ ErWithinBound(er)
             /\ hw' = [hw EXCEPT ![e].deq = @ + 1]
             /\ eps' = [eps EXCEPT ![e].ctx_state = "running"]
             /\ er' = IF trb.ioc THEN ErPost(er, TransferEvent(e, h.deq, code)) ELSE er
        ELSE /\ ErHasRoom(er) /\ ErWithinBound(er)
             /\ hw' = [hw EXCEPT ![e].running = FALSE, ![e].halt_at = h.deq]
             /\ eps' = [eps EXCEPT ![e].ctx_state = "halted"]
             /\ er' = ErPost(er, TransferEvent(e, h.deq, code))
     /\ UNCHANGED << cur, ret, xhc_state, wd, given, cmd_ring, cmd_hw, regs, irq >>

\* what a command does to its endpoint: [eps, hw, er, code]
\* Stop Endpoint stops a running endpoint and, with a TRB left to execute, posts
\* a transfer event for it with Stopped, or Stopped - Length Invalid on a Link
\* TRB; Reset Endpoint takes a halted endpoint to stopped; Set TR Dequeue
\* Pointer sets the dequeue pointer and cycle state of a stopped endpoint; in
\* another state of the endpoint the command fails with Context State Error
HcExecute(trb) ==
  LET e == trb.e
      h == hw[e]
      at == eps[e].ring.trbs[h.deq]
      fail == [eps |-> eps, hw |-> hw, er |-> er, code |-> "COMP_CTX_STATE"]
  IN CASE trb.type = "TRB_STOP_RING" ->
            IF eps[e].ctx_state # "running" THEN fail
            ELSE [eps |-> [eps EXCEPT ![e].ctx_state = "stopped"],
                  hw |-> [hw EXCEPT ![e].running = FALSE],
                  er |-> IF at.cycle # h.ccs THEN er
                         ELSE ErPost(er, TransferEvent(e, h.deq,
                                IF at.type = "link" THEN "COMP_STOP_INVAL" ELSE "COMP_STOP")),
                  code |-> "COMP_SUCCESS"]
       [] trb.type = "TRB_RESET_EP" ->
            IF eps[e].ctx_state # "halted" THEN fail
            ELSE [eps |-> [eps EXCEPT ![e].ctx_state = "stopped"],
                  hw |-> [hw EXCEPT ![e].running = FALSE], er |-> er,
                  code |-> "COMP_SUCCESS"]
       [] trb.type = "TRB_SET_DEQ" ->
            IF eps[e].ctx_state # "stopped" THEN fail
            ELSE [eps |-> eps,
                  hw |-> [hw EXCEPT ![e].deq = trb.deq.trb, ![e].seg = trb.deq.seg,
                                    ![e].ccs = trb.deq.cycle, ![e].halt_at = NULL],
                  er |-> er, code |-> "COMP_SUCCESS"]
       [] OTHER -> [eps |-> eps, hw |-> hw, er |-> er, code |-> "COMP_SUCCESS"]

\* The controller executes the command at its command ring dequeue pointer and
\* posts the command completion event after the events the command caused.
HcCommand ==
  LET c == cmd_hw
      trb == cmd_ring.trbs[c.deq]
  IN /\ c.running
     /\ "STS_HALT" \notin xhc_state
     /\ IF trb.cycle # c.ccs
        THEN /\ cmd_hw' = [c EXCEPT !.running = FALSE]
             /\ UNCHANGED << eps, hw, er >>
        ELSE IF trb.type = "link"
        THEN /\ cmd_hw' = [c EXCEPT !.deq = SegTrbs(SegNext(cmd_ring, c.seg)),
                                    !.seg = SegNext(cmd_ring, c.seg),
                                    !.ccs = IF trb.toggle THEN Toggle(@) ELSE @]
             /\ UNCHANGED << eps, hw, er >>
        ELSE \E x \in {HcExecute(trb)} :
               /\ ErWithinBound(er)
               /\ ErHasRoom(er)
               /\ ErHasRoom(x.er)
               /\ ErWithinBound(x.er)
               /\ cmd_hw' = [c EXCEPT !.deq = @ + 1]
               /\ eps' = x.eps
               /\ hw' = x.hw
               /\ er' = ErPost(x.er, CommandEvent(c.deq, x.code))
     /\ UNCHANGED << cur, ret, xhc_state, wd, given, cmd_ring, regs, irq >>

\* The command ring is stopped while the controller runs it: the controller
\* posts a command completion event with Command Ring Stopped for its command
\* ring dequeue pointer.
HcCommandRingStopped ==
  /\ cmd_hw.running
  /\ "STS_HALT" \notin xhc_state
  /\ ErWithinBound(er)
  /\ ErHasRoom(er)
  /\ cmd_hw' = [cmd_hw EXCEPT !.running = FALSE]
  /\ er' = ErPost(er, CommandEvent(cmd_hw.deq, "COMP_CMD_STOP"))
  /\ UNCHANGED << eps, hw, cur, ret, xhc_state, wd, given, cmd_ring, regs, irq >>

\* the ports of the controller
MaxPorts == RH_PORT_NUM + 1

\* a port changes its status
HcPortStatus(port_id) ==
  /\ "STS_HALT" \notin xhc_state
  /\ ErWithinBound(er)
  /\ ErHasRoom(er)
  /\ er' = ErPost(er, PortEvent(port_id))
  /\ UNCHANGED << eps, hw, cur, ret, xhc_state, wd, given, cmd_ring, cmd_hw, regs, irq >>

\* The controller reports a TRB it is not at: a transfer event for a TRB of an
\* endpoint's ring after it skipped the TDs before it or lost track of the ring,
\* a ring underrun, a completion code software does not know, or a command
\* completion event for a TRB that is not the oldest command.
HcOutOfStep(event) ==
  /\ "STS_HALT" \notin xhc_state
  /\ ErWithinBound(er)
  /\ ErHasRoom(er)
  /\ er' = ErPost(er, event)
  /\ UNCHANGED << eps, hw, cur, ret, xhc_state, wd, given, cmd_ring, cmd_hw, regs, irq >>

\* transfer events for the first two TRBs of the first segment and the first
\* TRB of the second, a ring underrun and a completion code software does not
\* know
OutOfStepTransfers ==
  { TransferEvent(0, trb, "COMP_SUCCESS") : trb \in {0, 1, SegTrbs(1)} }
    \cup { TransferEvent(0, 0, "COMP_UNDERRUN"), TransferEvent(0, 0, "COMP_UNKNOWN") }

\* a command completion event for the second TRB of the command ring
OutOfStepCompletions == { CommandEvent(1, "COMP_SUCCESS") }

\* a client has the endpoint stopped: xhci_queue_stop_endpoint(), then the
\* command doorbell
xhci_queue_stop_endpoint(e) ==
  /\ LockFree
  /\ "XHCI_STATE_DYING" \notin xhc_state
  /\ \E s \in {xhci_ring_cmd_db(queue_endpoint_command(HcdState, "TRB_STOP_RING", e))} :
       Becomes(s)
  /\ UNCHANGED << hw, cur, ret, xhc_state, wd, given, irq >>

\* a client clears the halt of an endpoint that stalled: Reset Endpoint, then
\* xhci_cleanup_stalled_ring() for the TD that stalled, then the command doorbell
xhci_endpoint_reset(e) ==
  /\ LockFree
  /\ "XHCI_STATE_DYING" \notin xhc_state
  /\ "EP_HALTED" \in eps[e].ep_state
  /\ eps[e].stopped_td # NoTd
  /\ \E s \in {xhci_ring_cmd_db(xhci_cleanup_stalled_ring(
                  queue_endpoint_command(HcdState, "TRB_RESET_EP", e), e))} : Becomes(s)
  /\ UNCHANGED << hw, cur, ret, xhc_state, wd, given, irq >>

(* ------------------------------------------------------------------ *)
(* One endpoint: transfer and port events, handled one by one          *)
(* ------------------------------------------------------------------ *)

NextEv ==
  \/ SubmitBulk(0)
  \/ BuilderStep
  \/ \E code \in TxCodes : HcStep(0, code)
  \/ \E port_id \in 1 .. MaxPorts : HcPortStatus(port_id)
  \/ \E event \in OutOfStepTransfers : HcOutOfStep(event)
  \/ xhci_mtk_irq_entry
  \/ xhci_mtk_irq_event

SpecEv == Init /\ [][NextEv]_vars

(* ------------------------------------------------------------------ *)
(* One endpoint: commands, cancellation, stopped and halted endpoints  *)
(* ------------------------------------------------------------------ *)

NextCmd ==
  \/ SubmitBulk(0)
  \/ BuilderStep
  \/ \E code \in TxCodes : HcStep(0, code)
  \/ HcCommand
  \/ HcCommandRingStopped
  \/ \E event \in OutOfStepCompletions : HcOutOfStep(event)
  \/ xhci_mtk_irq_entry
  \/ xhci_mtk_irq_event
  \/ xhci_queue_stop_endpoint(0)
  \/ xhci_endpoint_reset(0)
  \/ xhci_urb_dequeue(0)

SpecCmd == Init /\ [][NextCmd]_vars

(* ------------------------------------------------------------------ *)
(* Properties of the endpoint state flags                              *)
(* ------------------------------------------------------------------ *)

\* a step puts a Set TR Dequeue Pointer command for endpoint e on the command ring
SetDeqQueued(e) ==
  \E p \in Slots : /\ cmd_ring'.trbs[p] # cmd_ring.trbs[p]
                   /\ cmd_ring'.trbs[p].type = "TRB_SET_DEQ"
                   /\ cmd_ring'.trbs[p].e = e

\* a builder call rings the doorbell of endpoint e for the TD it has enqueued
DoorbellRung(e) == cur.pc = "giveback" /\ cur.e = e /\ ~hw[e].running /\ hw'[e].running

\* a Stop Endpoint or a Set TR Dequeue Pointer command is pending for endpoint e
CommandPending(e) == eps[e].ep_state \cap {"SET_DEQ_PENDING", "EP_HALT_PENDING"} # {}

\* C11: while SET_DEQ_PENDING or EP_HALT_PENDING is set for an endpoint, no step
\* rings the endpoint's doorbell for a newly enqueued TD and no step queues a
\* Set TR Dequeue Pointer command for the endpoint.
C11_NoRingChangeWhilePending ==
  [][\A e \in Eps : CommandPending(e) => ~DoorbellRung(e) /\ ~SetDeqQueued(e)]_vars

\* a Set TR Dequeue Pointer command is on the command ring of an endpoint whose
\* EP_HALT_PENDING has been set all along and a TD was enqueued without a doorbell
C11_Witness ==
  /\ "EP_HALT_PENDING" \in eps[0].ep_state
  /\ \E p \in Slots : cmd_ring.trbs[p].type = "TRB_SET_DEQ"
  /\ cur.pc = "idle" /\ ret = "OK" /\ ~hw[0].running

\* C12: a submission to a halted endpoint fails and enqueues nothing: while the
\* endpoint context says halted no builder call begins, no TD is added to the
\* td_list and no TRB of the ring is written.
C12_HaltedSubmitFails ==
  [][\A e \in Eps :
       (eps[e].ctx_state = "halted" /\ cur.pc = "idle")
       => /\ cur'.pc = "idle"
          /\ Len(eps'[e].ring.td_list) <= Len(eps[e].ring.td_list)
          /\ eps'[e].ring.trbs = eps[e].ring.trbs]_vars

C12_Witness ==
  /\ eps[0].ctx_state = "halted"
  /\ cur.pc # "idle" /\ cur.e = 0
  /\ Len(eps[0].ring.td_list) = 1
  /\ ret = "OK"

(* ------------------------------------------------------------------ *)
(* Properties of the event handlers                                    *)
(* ------------------------------------------------------------------ *)

\* the call of xhci_handle_event() the loop of xhci_mtk_irq() is about to make
NextEvent == xhci_handle_event(HcdState, "XHCI_STATE_DYING" \in xhc_state)

\* the dequeue cursor of a ring
DeqCursor(ring) == << ring.dequeue, ring.deq_seg, ring.cycle_state >>

\* C13: every call of xhci_handle_event() that returns a positive value leaves
\* the event ring's dequeue cursor exactly one event TRB further, whether the
\* branch handler or the end of xhci_handle_event() advanced it.
C13_EachEventAdvancesOnce ==
  (irq.pc = "events" /\ NextEvent.more)
  => DeqCursor(NextEvent.s.er) = DeqCursor(inc_deq(er, TRUE))

C13_Witness ==
  /\ irq.pc = "events"
  /\ er.trbs[er.dequeue].type = "port"
  /\ er.trbs[er.dequeue].cycle = er.cycle_state
  /\ get_port_index(er.trbs[er.dequeue].trb) >= RH_PORT_NUM
  /\ NextEvent.more

\* the interrupt handler handles the command completion event at the event
\* ring's dequeue pointer
CompletionHandled ==
  /\ irq.pc = "events"
  /\ er.trbs[er.dequeue].type = "completion"
  /\ er'.dequeue # er.dequeue

\* the event names the TRB at the command ring's dequeue pointer
CompletionMatches ==
  er.trbs[er.dequeue].trb + 1 = xhci_trb_virt_to_dma(cmd_ring.deq_seg, cmd_ring.dequeue)

\* a Command Ring Stopped event at a TRB that is not a command
StoppedAtNoCommand ==
  /\ er.trbs[er.dequeue].code = "COMP_CMD_STOP"
  /\ cmd_ring.trbs[cmd_ring.dequeue].type
       \notin {"TRB_CMD_NOOP", "TRB_STOP_RING", "TRB_SET_DEQ", "TRB_RESET_EP"}

\* the TRB after the one at the dequeue pointer, the first TRB of the next
\* segment when that is a Link TRB
NextCommand(ring) ==
  IF ring.trbs[ring.dequeue + 1].type = "link"
  THEN << SegTrbs((ring.deq_seg + 1) % NumSegs), (ring.deq_seg + 1) % NumSegs >>
  ELSE << ring.dequeue + 1, ring.deq_seg >>

\* the event is dropped: nothing but the error bitmask changes, which gets bit 5
CompletionDropped ==
  /\ cmd_ring' = cmd_ring
  /\ eps' = eps
  /\ regs'.g_cmd_status = regs.g_cmd_status
  /\ 5 \in regs'.error_bitmask

\* the command ring's dequeue pointer moves to the next command
CommandDequeued ==
  /\ << cmd_ring'.dequeue, cmd_ring'.deq_seg >> = NextCommand(cmd_ring)
  /\ cmd_ring'.enqueue = cmd_ring.enqueue
  /\ cmd_ring'.trbs = cmd_ring.trbs

\* C14 as stated: a command completion event that does not name the TRB at the
\* command ring's dequeue pointer is reported and dropped, the dequeue pointer
\* and the command results unchanged; one that names it moves the dequeue
\* pointer on by exactly one command TRB.
C14_MatchAlwaysAdvances ==
  [][CompletionHandled
     => IF CompletionMatches THEN CommandDequeued ELSE CompletionDropped]_vars

\* C14, amended: as stated, except that a matching Command Ring Stopped event
\* at a TRB that is not a command records CMD_DONE and leaves the command
\* ring as it is.
C14_MatchAdvancesUnlessStopped ==
  [][CompletionHandled
     => IF ~CompletionMatches THEN CompletionDropped
        ELSE IF StoppedAtNoCommand
        THEN cmd_ring' = cmd_ring /\ eps' = eps /\ regs'.g_cmd_status = "CMD_DONE"
        ELSE CommandDequeued]_vars

C14_Witness ==
  /\ 5 \in regs.error_bitmask
  /\ cmd_ring.dequeue = 1
  /\ regs.g_cmd_status = "CMD_DONE"
  /\ irq.pc = "idle"

\* the interrupt handler handles a transfer event for a TRB that is not in the
\* TD at the head of the endpoint's td_list
TransferDesyncHandled ==
  /\ irq.pc = "events"
  /\ er.trbs[er.dequeue].type = "transfer"
  /\ er'.dequeue # er.dequeue
  /\ handle_tx_event(HcdState, er.trbs[er.dequeue]).ret = "ESHUTDOWN"

\* C15: a command completion event that does not name the TRB at the command
\* ring's dequeue pointer, or a transfer event that does not name a TRB of the
\* TD the transfer ring expects, puts the controller in the dying state.
C15_DesyncIsFatal ==
  [][((CompletionHandled /\ ~CompletionMatches) \/ TransferDesyncHandled)
     => "XHCI_STATE_DYING" \in xhc_state']_vars

C15_Witness ==
  /\ 5 \in regs.error_bitmask
  /\ "XHCI_STATE_DYING" \notin xhc_state
  /\ irq.pc = "idle"
  /\ ~EventPending

\* the interrupt handler handles the transfer event at the event ring's
\* dequeue pointer
TransferHandled ==
  /\ irq.pc = "events"
  /\ er.trbs[er.dequeue].type = "transfer"
  /\ er'.dequeue # er.dequeue

\* the DMA address lies between the first and the last TRB of the TD
Covers(ring, td, dma) ==
  /\ td.last_trb # NULL
  /\ trb_in_td(ring, td.start_seg, td.first_trb, td.last_trb, dma) # NULL

\* the i-th TD of the td_list is the only one the event at the event ring's
\* dequeue pointer lies in
OnlyIn(e, i) ==
  LET list == eps[e].ring.td_list
      dma == er.trbs[er.dequeue].trb + 1
  IN /\ er.trbs[er.dequeue].e = e
     /\ Covers(eps[e].ring, list[i], dma)
     /\ \A j \in (1 .. Len(list)) \ {i} : ~Covers(eps[e].ring, list[j], dma)

\* a sequence without its i-th element
RemoveAt(s, i) == [ k \in 1 .. (Len(s) - 1) |-> IF k < i THEN s[k] ELSE s[k + 1] ]

\* C16: a transfer event for a TRB that lies in exactly one TD of the td_list,
\* wherever that TD is on the list, has that TD and no other processed: on a
\* successful completion that TD, and only it, leaves the td_list.
C16_EventSelectsItsTd ==
  [][\A e \in Eps : \A i \in 1 .. Len(eps[e].ring.td_list) :
       (TransferHandled /\ er.trbs[er.dequeue].code = "COMP_SUCCESS" /\ OnlyIn(e, i))
       => eps'[e].ring.td_list = RemoveAt(eps[e].ring.td_list, i)]_vars

C16_Witness ==
  /\ irq.pc = "events"
  /\ EventPending
  /\ er.trbs[er.dequeue].type = "transfer"
  /\ er.trbs[er.dequeue].code = "COMP_SUCCESS"
  /\ Len(eps[0].ring.td_list) >= 2
  /\ OnlyIn(0, 2)

\* the transfer event at the event ring's dequeue pointer is for endpoint e and
\* lies in no TD of its td_list
NoMatch(e) ==
  /\ er.trbs[er.dequeue].e = e
  /\ \A i \in 1 .. Len(eps[e].ring.td_list) :
       ~Covers(eps[e].ring, eps[e].ring.td_list[i], er.trbs[er.dequeue].trb + 1)

\* the ring's dequeue pointer and its td_list stay as they are
RingKept(e) ==
  /\ DeqCursor(eps'[e].ring) = DeqCursor(eps[e].ring)
  /\ eps'[e].ring.td_list = eps[e].ring.td_list

\* C17 as stated: a transfer event that lies in no pending TD leaves the
\* transfer ring's dequeue pointer and td_list as they are; with an empty
\* td_list handle_tx_event() returns no error, with TDs pending it returns one.
C17_OrphanAlwaysReported ==
  [][\A e \in Eps :
       (TransferHandled /\ NoMatch(e))
       => /\ RingKept(e)
          /\ (handle_tx_event(HcdState, er.trbs[er.dequeue]).ret = "OK")
               <=> (eps[e].ring.td_list = << >>)]_vars

C17_Witness ==
  /\ irq.pc = "events"
  /\ EventPending
  /\ er.trbs[er.dequeue].type = "transfer"
  /\ er.trbs[er.dequeue].code = "COMP_SUCCESS"
  /\ eps[0].ring.td_list # << >>
  /\ NoMatch(0)
  /\ handle_tx_event(HcdState, er.trbs[er.dequeue]).ret = "OK"

\* the interrupt handler handles a Stopped or Stopped-Invalid transfer event
\* for a TRB of the TD at the head of endpoint e's td_list
StoppedHandled(e) ==
  /\ TransferHandled
  /\ er.trbs[er.dequeue].e = e
  /\ er.trbs[er.dequeue].code \in {"COMP_STOP", "COMP_STOP_INVAL"}
  /\ eps[e].ring.td_list # << >>
  /\ handle_tx_event(HcdState, er.trbs[er.dequeue]).ret = "OK"

\* no Set TR Dequeue Pointer command has been queued, so that none has completed
NoSetDeqQueued == \A p \in Slots : cmd_ring.trbs[p].type # "TRB_SET_DEQ"

\* C18: a Stopped (or Stopped-Invalid) transfer event for a TD leaves the TD on
\* the td_list and the ring's dequeue pointer where it is, and makes stopped_td
\* and stopped_trb name the TD and the event's TRB; the stopped TD then stays on
\* the td_list as long as no Set TR Dequeue Pointer command has completed.
C18_StoppedTdStaysUntilSetDeq ==
  [][\A e \in Eps :
       /\ StoppedHandled(e)
          => /\ RingKept(e)
             /\ eps'[e].stopped_td = Head(eps[e].ring.td_list)
             /\ eps'[e].stopped_trb = er.trbs[er.dequeue].trb
       /\ (eps[e].stopped_td \in Range(eps[e].ring.td_list) /\ NoSetDeqQueued)
          => eps[e].stopped_td \in Range(eps'[e].ring.td_list)]_vars

C18_Witness ==
  /\ eps[0].stopped_td # NoTd
  /\ eps[0].stopped_td \notin Range(eps[0].ring.td_list)
  /\ "EP_HALTED" \notin eps[0].ep_state
  /\ NoSetDeqQueued
  /\ \E p \in Slots : cmd_ring.trbs[p].type = "TRB_STOP_RING"

\* C19: within one call of xhci_mtk_irq() that handles events the event handler
\* busy bit is cleared once, by the step that returns, after the last pending
\* event has been handled; no step before it, and so no call of
\* xhci_set_hc_event_deq(), clears the bit.
C19_BusyClearedOnceAtReturn ==
  [][/\ (er.ehb /\ ~er'.ehb) => (irq.pc = "events" /\ irq'.pc = "idle")
     /\ (irq.pc = "events" /\ irq'.pc = "idle") => (~EventPending /\ ~er'.ehb)]_vars

C19_Witness ==
  /\ irq.pc = "events"
  /\ er.dequeue = irq.event_ring_deq + 1
  /\ er.erst_dequeue = er.dequeue
  /\ er.trbs[irq.event_ring_deq].type = "transfer"
  /\ EventPending
  /\ er.ehb

(* ------------------------------------------------------------------ *)
(* Commands that complete                                              *)
(* ------------------------------------------------------------------ *)

\* The controller executes the commands on the command ring once the command
\* doorbell has been rung, and the interrupt is taken while an event is pending.
SpecCmdFair ==
  /\ SpecCmd
  /\ WF_vars(HcCommand)
  /\ WF_vars(xhci_mtk_irq_entry)

\* every command that was queued has completed and its completion event has
\* been handled
CommandsDone ==
  /\ cmd_ring.out = 0
  /\ cmd_ring.trbs[cmd_hw.deq].cycle # cmd_hw.ccs
  /\ ~EventPending
  /\ irq.pc = "idle"

\* C20: if every command queued on the command ring gets a completion event
\* that is handled, then whenever SET_DEQ_PENDING is set for an endpoint it is
\* cleared again later.
C20_SetDeqPendingCleared ==
  ([]<>CommandsDone)
  => \A e \in Eps : ("SET_DEQ_PENDING" \in eps[e].ep_state)
                      ~> ("SET_DEQ_PENDING" \notin eps[e].ep_state)

C20_Witness ==
  /\ "SET_DEQ_PENDING" \in eps[0].ep_state
  /\ CommandsDone

(* ------------------------------------------------------------------ *)
(* The TRBs of one request                                             *)
(* ------------------------------------------------------------------ *)

\* buffers that start at a 64KB boundary, 512 and 4096 bytes before one
BufStarts == { 0, 65024, 61440 }

\* the requests a client submits: bulk transfers
\* of no data, one packet, two packets and 70000 bytes from each start address
\* with and without URB_ZERO_PACKET, scatter-gather lists (one entry, two
\* entries, an entry longer than the transfer), control transfers without data,
\* with data, with data across a 64KB boundary, each with URB_ZERO_PACKET too, and
\* isochronous requests of two frames and of a frame across a 64KB boundary
TdUrbs ==
  { BulkUrb(dma, len, zp) : dma \in BufStarts, len \in {0, 512, 1024, 70000}, zp \in BOOLEAN }
    \cup { SgUrb(<< [addr |-> 0, len |-> 512] >>, 512, TRUE),
           SgUrb(<< [addr |-> 65024, len |-> 512], [addr |-> 131072, len |-> 512] >>, 1024, FALSE),
           SgUrb(<< [addr |-> 65024, len |-> 1024] >>, 512, FALSE) }
    \cup { CtrlUrb(0, FALSE), CtrlUrb(0, TRUE), CtrlUrb(64, FALSE), CtrlUrb(64, TRUE),
           [CtrlUrb(1024, FALSE) EXCEPT !.transfer_dma = 65024] }
    \cup { IsocUrb(<< [offset |-> 0, length |-> 1024], [offset |-> 1024, length |-> 1024] >>),
           [IsocUrb(<< [offset |-> 0, length |-> 1024] >>) EXCEPT !.transfer_dma = 65024] }

\* a builder is called for a request
SubmitOne == \E urb \in TdUrbs : Submit(0, urb)

\* the builders alone, on a ring that nothing is taken off
NextTd ==
  \/ SubmitOne
  \/ BuilderStep

SpecTd == Init /\ [][NextTd]_vars

(* ------------------------------------------------------------------ *)
(* Properties of the TRBs of one request                               *)
(* ------------------------------------------------------------------ *)

\* the 64KB-aligned region an address lies in
Region(addr) == addr \div TRB_MAX_BUFF_SIZE

\* C22: every TRB a builder gives a data buffer (the Data stage of a control
\* transfer, the TRBs of a bulk, scatter-gather or isochronous transfer)
\* describes bytes address .. address + length - 1 of one 64KB-aligned region.
C22_TrbWithinOneRegion ==
  (cur.trb.data /\ cur.trb.len > 0)
  => Region(cur.trb.addr) = Region(cur.trb.addr + cur.trb.len - 1)

\* a bulk transfer that starts 512 bytes before a 64KB boundary has written its
\* first TRB, which ends at the boundary
C22_Witness ==
  /\ cur.urb.kind = "bulk"
  /\ cur.trb.data
  /\ cur.trb.addr = 65024 /\ cur.trb.len = 512
  /\ cur.more

\* the builder call in progress has written the last TRB of a bulk or
\* scatter-gather TD
BulkTdWritten == cur.urb.kind = "bulk" /\ cur.pc = "giveback"

\* the builder call in progress has written the last TRB of the TD of frame
\* cur.i - 1 of an isochronous request
IsocTdWritten == cur.urb.kind = "isoc" /\ cur.pc \in {"isoc_td", "giveback"} /\ cur.i > 1

\* C23: the lengths of the TRBs written for one TD add up to the transfer
\* length of the request, for an isochronous request to the length of the
\* TD's frame.
C23_LengthsAddUp ==
  /\ BulkTdWritten => cur.sum = cur.urb.len
  /\ IsocTdWritten => cur.sum = cur.urb.packets[cur.i - 1].length

\* the two TRBs of a scatter-gather transfer of two entries have been written
C23_Witness == BulkTdWritten /\ Len(cur.urb.sg) = 2 /\ Cardinality(cur.written) = 2

\* the whole max-packets of a bulk transfer that are left after the TRBs
\* written so far
PacketsLeft == (cur.urb.len - cur.sum + cur.urb.maxp - 1) \div cur.urb.maxp

\* C24: the TD size of a TRB that is not the last of its TD is the number of
\* max-packets left to transfer after that TRB, at most 31; the TD size of the
\* last TRB is 0.
C24_TdSizeIsPacketsAfter ==
  (cur.urb.kind = "bulk" /\ cur.trb.data)
  => cur.trb.rem = IF cur.more THEN Min(31, PacketsLeft) ELSE 0

\* the first of the two TRBs of a transfer of two packets has been written
C24_Witness ==
  /\ cur.urb.kind = "bulk" /\ cur.urb.len = 1024 /\ ~cur.urb.zero_packet
  /\ cur.trb.data /\ cur.trb.len = 512 /\ cur.more
  /\ PacketsLeft = 1

\* the builder call in progress writes a TRB of the TD of the TRB it wrote last
SameTdStep ==
  /\ cur.trb.data /\ cur'.trb.data
  /\ cur.more
  /\ cur'.written # cur.written

\* C25: along the TRBs of one TD the TD size never grows, and it is 0 on the
\* last TRB of the TD and on no other.
C25_TdSizeFallsToZeroAtEnd ==
  [][/\ SameTdStep => cur'.trb.rem <= cur.trb.rem
     /\ (cur.urb.kind \in {"bulk", "isoc"} /\ cur.trb.data)
          => (cur.trb.rem = 0 <=> ~cur.more)]_vars

\* the TRB of the one packet of a transfer with URB_ZERO_PACKET has been
\* written and the zero-length TRB is still to come
C25_Witness ==
  /\ cur.urb.kind = "bulk" /\ cur.urb.zero_packet /\ cur.urb.len = 512
  /\ cur.trb.data /\ cur.trb.len = 512 /\ cur.more
  /\ cur.trb.rem = 0

\* the TRBs of the given type among those the builder call in progress has written
WrittenOfType(type) ==
  Cardinality({ s \in cur.written : eps[cur.e].ring.trbs[s].type = type })

\* the builder call in progress has written the Status TRB of a control request
CtrlTdWritten == cur.urb.kind = "ctrl" /\ cur.pc = "giveback"

\* C26: a control request is written as one Setup TRB first, one Data TRB if
\* and only if its data length is not zero, and one Status TRB; a request
\* without data is two TRBs.
C26_CtrlSetupDataStatus ==
  CtrlTdWritten
  => /\ WrittenOfType("setup") = 1
     /\ eps[cur.e].ring.trbs[cur.start_trb].type = "setup"
     /\ WrittenOfType("data") = (IF cur.urb.len > 0 THEN 1 ELSE 0)
     /\ WrittenOfType("status") = 1
     /\ Cardinality(cur.written) = (IF cur.urb.len > 0 THEN 3 ELSE 2)

\* a control request without data and with URB_ZERO_PACKET has been written
C26_Witness ==
  /\ CtrlTdWritten
  /\ cur.urb.len = 0 /\ cur.urb.zero_packet
  /\ WrittenOfType("data") = 1

\* the TD the builder call in progress is writing (the tail of td_list)
TdBeingBuilt == eps[cur.e].ring.td_list[Len(eps[cur.e].ring.td_list)]

\* C27: in a bulk transfer of non-zero length a zero-length TRB is written if
\* and only if URB_ZERO_PACKET is set and the length is a multiple of the max
\* packet size; it is then the one last TRB of the TD, td->last_trb, and has IOC.
C27_ZeroLengthTrbOnlyForZlp ==
  (cur.urb.kind = "bulk" /\ cur.urb.len > 0 /\ cur.trb.data)
  => /\ cur.trb.len = 0 <=> (NeedsZlp(cur.urb) /\ ~cur.more)
     /\ cur.trb.len = 0
          => /\ eps[cur.e].ring.trbs[cur.trb.at].ioc
             /\ TdBeingBuilt.last_trb = cur.trb.at

\* a scatter-gather transfer of one packet with URB_ZERO_PACKET has written its
\* zero-length TRB after the TRB of the packet
C27_Witness ==
  /\ cur.urb.kind = "bulk" /\ cur.urb.len = 512 /\ Len(cur.urb.sg) = 1
  /\ NeedsZlp(cur.urb)
  /\ cur.trb.data /\ cur.trb.len = 0 /\ ~cur.more
  /\ Cardinality(cur.written) = 2
  /\ TdBeingBuilt.last_trb = cur.trb.at

\* the builder call in progress is for a bulk transfer of 70000 bytes from one
\* buffer, max packet size 512
Bulk70000 ==
  /\ cur.urb.kind = "bulk" /\ cur.urb.sg = << >>
  /\ cur.urb.len = 70000 /\ cur.urb.maxp = 512

\* C28 as stated: a bulk transfer of 70000 bytes is written as exactly two
\* TRBs, wherever its buffer starts.
C28_TwoTrbsFromAnyAddress ==
  (Bulk70000 /\ BulkTdWritten) => Cardinality(cur.written) = 2

\* C28, amended: a bulk transfer of 70000 bytes is written as two TRBs when
\* its buffer starts at least 4464 bytes before a 64KB boundary and as three
\* TRBs otherwise; the lengths add up to 70000 and no TRB has length zero.
C28_TwoOrThreeTrbs ==
  Bulk70000
  => /\ cur.trb.data => cur.trb.len > 0
     /\ BulkTdWritten
          => /\ cur.sum = 70000
             /\ Cardinality(cur.written) =
                  (IF TRB_MAX_BUFF_SIZE - (cur.urb.transfer_dma % TRB_MAX_BUFF_SIZE)
                        >= 70000 - TRB_MAX_BUFF_SIZE
                   THEN 2 ELSE 3)

\* a transfer of 70000 bytes that starts 512 bytes before a 64KB boundary has
\* been written as three TRBs
C28_Witness ==
  /\ Bulk70000 /\ BulkTdWritten
  /\ cur.urb.transfer_dma = 65024
  /\ Cardinality(cur.written) = 3
  /\ cur.sum = 70000

(* ------------------------------------------------------------------ *)
(* Properties of finish_td()                                           *)
(* ------------------------------------------------------------------ *)

\* the completion codes finish_td() is called with
FinishCodes == KnownCodes \ {"COMP_UNDERRUN", "COMP_OVERRUN"}

\* C29: finish_td() reports a request of N TDs as finished when it takes the
\* N-th TD off the td_list and for none of the TDs before; the TD it finishes,
\* and no other, is taken off the td_list.
C29_FinishedWithLastTd ==
  \A e \in DOMAIN eps :
    eps[e].ring.td_list # << >>
    => LET td == Head(eps[e].ring.td_list)
       IN \A code \in FinishCodes :
            LET stopped == code \in {"COMP_STOP_INVAL", "COMP_STOP"}
                after == finish_td(HcdState, e, td.last_trb, code).eps[e].ring.td_list
            IN /\ finish_td_ret(HcdState, e, code) = 1
                    <=> (~stopped /\ td.td_index = td.length - 1)
               /\ after = IF stopped THEN eps[e].ring.td_list ELSE Tail(eps[e].ring.td_list)

\* the first TD of an isochronous request of two TDs has been finished by the
\* event handler and the second is at the head of the td_list
C29_Witness ==
  /\ eps[0].ring.td_list # << >>
  /\ Head(eps[0].ring.td_list).td_index = 1
  /\ Head(eps[0].ring.td_list).length = 2
  /\ eps[0].ring.td_cnt[Head(eps[0].ring.td_list).urb] = 1
  /\ finish_td_ret(HcdState, 0, "COMP_SUCCESS") = 1

(* ------------------------------------------------------------------ *)
(* The interrupt handler on removed hardware                           *)
(* ------------------------------------------------------------------ *)

\* xhci_mtk_irq() reading the status register as 0xffffffff: goto hw_died
xhci_mtk_irq_status_ones ==
  /\ LockFree
  /\ irq' = [irq EXCEPT !.pc = "hw_died"]
  /\ UNCHANGED << eps, hw, er, cur, ret, xhc_state, wd, given, cmd_ring, cmd_hw, regs >>

\* the hw_died label of xhci_mtk_irq(): the lock is released and the call
\* returns -ESHUTDOWN
xhci_mtk_irq_hw_died ==
  /\ irq.pc = "hw_died"
  /\ irq' = IrqIdle
  /\ UNCHANGED << eps, hw, er, cur, ret, xhc_state, wd, given, cmd_ring, cmd_hw, regs >>

\* requests are submitted and transferred, and the interrupt handler is called
\* with events pending or with the status register reading as all ones
NextDied ==
  \/ xhci_queue_bulk_tx(0)
  \/ BuilderStep
  \/ HwStep(0)
  \/ xhci_mtk_irq
  \/ xhci_mtk_irq_status_ones
  \/ xhci_mtk_irq_hw_died

SpecDied == Init /\ [][NextDied]_vars

\* the interrupt handler call that read the status register as all ones returns
HwDiedReturns == irq.pc = "hw_died" /\ irq'.pc = "idle"

\* C30: when the interrupt handler has read the status register as all ones,
\* it returns with every pending TD given back with -ESHUTDOWN and without
\* moving a ring: no event is handled, no enqueue or dequeue pointer moves.
C30_AllOnesIsHostDeath ==
  [][HwDiedReturns
       => /\ \A e \in Eps :
               /\ eps'[e].ring.td_list = << >>
               /\ \A i \in 1 .. Len(eps[e].ring.td_list) :
                    \E g \in 1 .. Len(given'[e]) : given'[e][g] = eps[e].ring.td_list[i]
               /\ eps'[e].ring.enqueue = eps[e].ring.enqueue
               /\ eps'[e].ring.dequeue = eps[e].ring.dequeue
          /\ er' = er
          /\ cmd_ring' = cmd_ring]_vars

\* the handler has read the status register as all ones while a TD is pending
C30_Witness ==
  /\ irq.pc = "hw_died"
  /\ eps[0].ring.td_list # << >>
  /\ cur.pc = "idle"

(* ------------------------------------------------------------------ *)
(* One endpoint that stalls and babbles                                *)
(* ------------------------------------------------------------------ *)

\* the completion codes of the transfers of an endpoint that stalls and babbles
HaltCodes == { "COMP_SUCCESS", "COMP_STALL", "COMP_BABBLE" }

\* a client clears the halt of an endpoint once: not again while the Set TR
\* Dequeue Pointer command of the first call is pending
ClearHalt(e) ==
  /\ "SET_DEQ_PENDING" \notin eps[e].ep_state
  /\ xhci_endpoint_reset(e)

\* requests are submitted and transferred, a transfer stalls or babbles, the
\* client resets the endpoint, the controller runs the commands
NextHalt ==
  \/ xhci_queue_bulk_tx(0)
  \/ BuilderStep
  \/ \E code \in HaltCodes : HcStep(0, code)
  \/ HcCommand
  \/ xhci_mtk_irq_entry
  \/ xhci_mtk_irq_event
  \/ ClearHalt(0)

SpecHalt == Init /\ [][NextHalt]_vars

\* an event on the event ring that the handler has not handled
Unhandled(p) ==
  er.trbs[p].cycle = (IF p >= er.dequeue THEN er.cycle_state ELSE Toggle(er.cycle_state))

\* the transfer event of the error that halted endpoint e is on the event
\* ring, not handled yet
HaltEventUnhandled(e) ==
  \E p \in ErSlots :
    /\ Unhandled(p)
    /\ er.trbs[p].type = "transfer" /\ er.trbs[p].e = e
    /\ er.trbs[p].code \in {"COMP_STALL", "COMP_BABBLE"}

\* the controller executes a TRB of the transfer ring of endpoint e
TdExecuted(e) == hw'[e].deq # hw[e].deq /\ cmd_hw' = cmd_hw

SoftwareRings(E, c) == << [e \in Eps |-> E[e].ring], c >>

\* C31: xhci_handle_event() handles and consumes the TRB at the event ring's
\* dequeue pointer only if the TRB's cycle bit equals the event ring's
\* cycle_state; otherwise it returns 0 and leaves the event ring's dequeue
\* pointer and cycle_state, the command ring and every transfer ring as they
\* are, and the loop of the interrupt handler ends.
C31_OnlyOwnedEventsHandled ==
  [][/\ (DeqCursor(er') # DeqCursor(er)) => EventPending
     /\ (irq.pc = "events" /\ ~EventPending)
        => /\ ~NextEvent.more
           /\ NextEvent.s = HcdState
           /\ DeqCursor(er') = DeqCursor(er)
           /\ SoftwareRings(eps', cmd_ring') = SoftwareRings(eps, cmd_ring)
           /\ (irq' # irq => irq'.pc = "idle")]_vars

\* the loop has handled an event and is at a TRB of the lap before, which the
\* controller has not written again
C31_Witness ==
  /\ irq.pc = "events"
  /\ ~EventPending
  /\ er.dequeue # irq.event_ring_deq
  /\ er.trbs[er.dequeue].type # "none"

(* ------------------------------------------------------------------ *)
(* The Link TRB the enqueue pointer rests on                           *)
(* ------------------------------------------------------------------ *)

\* what the producer owns of a ring: the enqueue pointer, the cycle state and
\* the Link TRBs
EnqueueSide(ring) ==
  << ring.enqueue, ring.enq_seg, ring.cycle_state,
     [p \in { q \in DOMAIN ring.trbs : ring.trbs[q].type = "link" } |-> ring.trbs[p]] >>

\* the enqueue pointer of after rests on the Link TRB that follows the enqueue
\* pointer of ring, the Link TRB and the cycle state as they were
LinkKept(ring, after) ==
  /\ after.enqueue = ring.enqueue + 1
  /\ after.enq_seg = ring.enq_seg
  /\ after.trbs[ring.enqueue + 1] = ring.trbs[ring.enqueue + 1]
  /\ after.cycle_state = ring.cycle_state

\* the Link TRB the enqueue pointer of ring rests on has been given to the
\* controller in after: cycle bit flipped, enqueue pointer in the next segment,
\* cycle state toggled after the last segment
LinkGiven(ring, after) ==
  /\ after.trbs[ring.enqueue].cycle = Toggle(ring.trbs[ring.enqueue].cycle)
  /\ after.enq_seg = SegNext(ring, ring.enq_seg)
  /\ after.cycle_state = IF ring.trbs[ring.enqueue].toggle THEN Toggle(ring.cycle_state)
                         ELSE ring.cycle_state

\* the command ring after one more command has been queued
OneMoreCommand == queue_command(cmd_ring, CmdTrb("TRB_CMD_NOOP", 0, NoDeq), FALSE)

\* C32: when inc_enq() steps onto a Link TRB after a TRB without chain bit and
\* with more_trbs_coming false, the enqueue pointer stays on the Link TRB, whose
\* cycle bit, like the ring's cycle_state, stays as it is; the Link TRB is given
\* to the controller only by the next prepare_ring() that finds room, before
\* the first TRB of the next TD is written.  On a transfer ring by the steps of
\* the builders, on the command ring by queue_command().
C32_LinkGivenByNextPrepareRing ==
  [][/\ \A e \in Eps :
          LET ring == eps[e].ring
              after == eps'[e].ring
          IN /\ ( /\ QueueTrbStep /\ cur.e = e /\ OntoLink(ring)
                  /\ ~cur'.more /\ ~after.trbs[ring.enqueue].chain )
                => LinkKept(ring, after)
             /\ enqueue_is_link_trb(ring)
                => IF PrepareRingStep /\ cur'.e = e
                   THEN /\ LinkGiven(ring, after)
                        /\ after.enqueue = NextSegTrbs(ring, ring.enq_seg)
                        /\ after.trbs[after.enqueue] = ring.trbs[after.enqueue]
                        /\ after.enqueue \notin cur'.written
                   ELSE EnqueueSide(after) = EnqueueSide(ring)
     /\ (OneMoreCommand.ret = "OK" /\ OntoLink(cmd_ring))
        => LinkKept(cmd_ring, OneMoreCommand.ring)
     /\ (OneMoreCommand.ret = "OK" /\ enqueue_is_link_trb(cmd_ring))
        => /\ LinkGiven(cmd_ring, OneMoreCommand.ring)
           /\ OneMoreCommand.ring.trbs[NextSegTrbs(cmd_ring, cmd_ring.enq_seg)].cycle
                = OneMoreCommand.ring.cycle_state
     /\ enqueue_is_link_trb(cmd_ring)
        => \/ EnqueueSide(cmd_ring') = EnqueueSide(cmd_ring)
           \/ /\ LinkGiven(cmd_ring, cmd_ring')
              /\ cmd_ring'.trbs[NextSegTrbs(cmd_ring, cmd_ring.enq_seg)].type
                   \in {"TRB_STOP_RING", "TRB_RESET_EP", "TRB_SET_DEQ"}]_vars

\* prepare_ring() has given the Link TRB of the first segment of a transfer
\* ring to the controller for a TD whose first TRB is not yet written, and the
\* command ring's enqueue pointer rests on a Link TRB
C32_Witness ==
  /\ cur.pc # "idle"
  /\ cur.written = {}
  /\ cur.start_trb = SegTrbs(1)
  /\ eps[cur.e].ring.trbs[TRBS_PER_SEGMENT - 1].cycle = 1
  /\ eps[cur.e].ring.cycle_state = 1
  /\ enqueue_is_link_trb(cmd_ring)

(* ------------------------------------------------------------------ *)
(* The TRBs a builder asks for and the TRBs it writes                  *)
(* ------------------------------------------------------------------ *)

\* the TRB count a builder passes to prepare_ring() or prepare_transfer() for
\* the whole request
TrbsAskedFor(urb) ==
  CASE urb.kind = "ctrl" -> count_ctrl_trbs(urb)
    [] urb.kind = "isoc" -> count_isoc_total(urb, 1)
    [] Len(urb.sg) > 0 -> count_sg_trbs_needed(urb)
    [] OTHER -> count_bulk_trbs(urb)

\* C33: a builder writes no more TRBs to the ring than the count it passed to
\* prepare_ring() or prepare_transfer() for the room check, so that a request
\* the room check admitted leaves a slot that is not a Link TRB free.
C33_NoMoreTrbsThanAskedFor ==
  cur.pc # "idle"
  => /\ Cardinality(cur.written) <= TrbsAskedFor(cur.urb)
     /\ eps[cur.e].ring.out <= Usable - 1

\* a scatter-gather builder has written the zero-length TRB after the TRBs it
\* asked room for
C33_Witness ==
  /\ cur.pc = "giveback"
  /\ Len(cur.urb.sg) > 0
  /\ Cardinality(cur.written) = TrbsAskedFor(cur.urb) + 1

(* ------------------------------------------------------------------ *)
(* Where the dequeue pointer rests                                     *)
(* ------------------------------------------------------------------ *)

\* the dequeue pointer of a command or transfer ring is at a Link TRB
DequeueOnLink(ring) == last_trb(ring, ring.deq_seg, ring.dequeue)

\* C34: the dequeue pointer of the command ring and of every transfer ring
\* never rests on a Link TRB, whether inc_deq(), the finishing of a TD or
\* xhci_find_new_dequeue_state() moved it.
C34_DequeueNeverOnLink ==
  /\ ~DequeueOnLink(cmd_ring)
  /\ \A e \in Eps : ~DequeueOnLink(eps[e].ring)

\* the dequeue pointer of a transfer ring was moved past a TD that halted the
\* endpoint and whose last TRB is the last one before a Link TRB
C34_Witness ==
  /\ DequeueOnLink(eps[0].ring)
  /\ "SET_DEQ_PENDING" \in eps[0].ep_state
  /\ hw[0].halt_at = eps[0].ring.dequeue - 1

(* ------------------------------------------------------------------ *)
(* The loop over the events                                            *)
(* ------------------------------------------------------------------ *)

\* The controller posts up to MaxEvents events of every type, for known and
\* unknown ports, TRBs and completion codes, and then no more; the interrupt
\* handler is called and runs its loop over the events.
NextDrain ==
  \/ \E port_id \in 1 .. MaxPorts : HcPortStatus(port_id)
  \/ \E event \in OutOfStepTransfers \cup OutOfStepCompletions : HcOutOfStep(event)
  \/ xhci_mtk_irq_entry
  \/ xhci_mtk_irq_event

\* the loop while (xhci_handle_event(xhci) > 0) {} keeps running once entered
SpecDrainFair == Init /\ [][NextDrain]_vars /\ WF_vars(xhci_mtk_irq_event)

\* C35: the loop of the interrupt handler over the events ends: once the
\* handler is in the loop it returns, after the events the controller has
\* posted, with the event ring's dequeue pointer at a TRB that software does
\* not own.
C35_DrainLoopTerminates ==
  (irq.pc = "events") ~> (irq.pc = "idle" /\ ~EventPending)

\* the loop is at a port status event that xhci_handle_event() returns a
\* positive value for and leaves where it is, the state as it was
C35_Witness ==
  /\ irq.pc = "events"
  /\ er.trbs[er.dequeue].type = "port"
  /\ NextEvent.more
  /\ NextEvent.s = HcdState
  /\ ~ErWithinBound(er)

(* ------------------------------------------------------------------ *)
(* A firing of the Stop-Endpoint watchdog                              *)
(* ------------------------------------------------------------------ *)

\* the watchdog timer of endpoint e expires in this step
WatchdogFired(e) == eps[e].stop_cmd_timer /\ ~eps'[e].stop_cmd_timer

\* the firing finds the controller not dying and, once it has decremented
\* stop_cmds_pending, the counter at 0 with EP_HALT_PENDING still set
LastStopCommandUnanswered(e) ==
  /\ "XHCI_STATE_DYING" \notin xhc_state
  /\ eps[e].stop_cmds_pending - 1 = 0
  /\ "EP_HALT_PENDING" \in eps[e].ep_state

Residuals == { 0, 8 }

\* The controller executes a Data TRB, which has ISP set, and the device sends
\* less than asked for: a transfer event with Short Packet and the bytes not
\* transferred, and the controller goes on.
HcShortPacket(e, residual) ==
  LET h == hw[e]
      trb == eps[e].ring.trbs[h.deq]
  IN /\ h.running
     /\ "STS_HALT" \notin xhc_state
     /\ eps[e].ctx_state \in {"running", "stopped"}
     /\ trb.cycle = h.ccs
     /\ trb.type = "data"
     /\ ErHasRoom(er) /\ ErWithinBound(er)
     /\ hw' = [hw EXCEPT ![e].deq = @ + 1]
     /\ eps' = [eps EXCEPT ![e].ctx_state = "running"]
     /\ er' = ErPost(er, [TransferEvent(e, h.deq, "COMP_SHORT_TX") EXCEPT !.len = residual])
     /\ UNCHANGED << cur, ret, xhc_state, wd, given, cmd_ring, cmd_hw, regs, irq >>

\* Success events for the first two TRBs of the ring, the Setup TRB and the
\* next TRB of the control TD that starts there, whatever the controller is at
OutOfStepStages == { TransferEvent(0, trb, "COMP_SUCCESS") : trb \in {0, 1} }

\* control requests are submitted and transferred; a stage succeeds, is short,
\* stalls or babbles, or the controller reports a TRB it is not at; a halted
\* endpoint stays halted
NextCtrl ==
  \/ xhci_queue_ctrl_tx(0)
  \/ BuilderStep
  \/ \E code \in HaltCodes : HcStep(0, code)
  \/ \E residual \in Residuals : HcShortPacket(0, residual)
  \/ \E event \in OutOfStepStages : HcOutOfStep(event)
  \/ xhci_mtk_irq_entry
  \/ xhci_mtk_irq_event

SpecCtrl == Init /\ [][NextCtrl]_vars

\* the loop of the interrupt handler is at a transfer event, and a control TD
\* is at the head of the td_list of the event's endpoint
CtrlEvent ==
  LET event == er.trbs[er.dequeue]
  IN /\ irq.pc = "events"
     /\ EventPending
     /\ event.type = "transfer"
     /\ eps[event.e].ring.td_list # << >>
     /\ Head(eps[event.e].ring.td_list).kind = "ctrl"

\* the control TD at the head of the td_list of endpoint e is finalized in
\* this step: it is taken off the td_list and the dequeue pointer moves
CtrlFinalized(e) ==
  LET ring == eps[e].ring
  IN /\ ring.td_list # << >>
     /\ Head(ring.td_list).kind = "ctrl"
     /\ eps'[e].ring.td_list = Tail(ring.td_list)
     /\ eps'[e].ring.dequeue # ring.dequeue

\* the event the loop is at, which the handler's next step takes off the event
\* ring, is a Success or Short Packet event for a Data TRB of the TD at the
\* head of the td_list
DataStageEvent ==
  LET event == er.trbs[er.dequeue]
      ring == eps[event.e].ring
  IN /\ CtrlEvent
     /\ event.code \in {"COMP_SUCCESS", "COMP_SHORT_TX"}
     /\ ring.trbs[event.trb].type = "data"
     /\ Covers(ring, Head(ring.td_list), event.trb + 1)

\* the step records the actual length the event reports for the request of
\* the TD at the head of the td_list and leaves the rest of the endpoint as it was
OnlyLengthRecorded ==
  LET event == er.trbs[er.dequeue]
      ring == eps[event.e].ring
      urb == Head(ring.td_list).urb
  IN eps' = [eps EXCEPT ![event.e].ring.actual_length[urb] =
                          USub(ring.transfer_buffer_length[urb], event.len)]

\* C37 as stated: a control TD is finalized only by the event for its Status
\* TRB or by an error event, and a Success or Short Packet event for a Data
\* TRB of it only records the actual length: the TD stays on the td_list and
\* the dequeue pointer where it is.
C37_CtrlFinalizedByStatusOrError ==
  [][/\ \A e \in Eps :
          CtrlFinalized(e) =>
            /\ CtrlEvent
            /\ er.trbs[er.dequeue].e = e
            /\ \/ er.trbs[er.dequeue].trb = Head(eps[e].ring.td_list).last_trb
               \/ er.trbs[er.dequeue].code \notin {"COMP_SUCCESS", "COMP_SHORT_TX"}
     /\ (DataStageEvent /\ er'.dequeue # er.dequeue) => OnlyLengthRecorded]_vars

\* The same with the events for the TRB at the ring's dequeue pointer, where
\* the Setup TRB of the TD is, among the events that finalize the TD.
CtrlFinalizedByStatusSetupOrError ==
  [][/\ \A e \in Eps :
          CtrlFinalized(e) =>
            /\ CtrlEvent
            /\ er.trbs[er.dequeue].e = e
            /\ \/ er.trbs[er.dequeue].trb = Head(eps[e].ring.td_list).last_trb
               \/ er.trbs[er.dequeue].trb = eps[e].ring.dequeue
               \/ er.trbs[er.dequeue].code \notin {"COMP_SUCCESS", "COMP_SHORT_TX"}
     /\ (DataStageEvent /\ er'.dequeue # er.dequeue) => OnlyLengthRecorded]_vars

\* The same again with the Data stage events that handle_tx_event() finds in
\* no TD and drops: the endpoint stays as it was.
CtrlFinalizedOrDropped ==
  [][/\ \A e \in Eps :
          CtrlFinalized(e) =>
            /\ CtrlEvent
            /\ er.trbs[er.dequeue].e = e
            /\ \/ er.trbs[er.dequeue].trb = Head(eps[e].ring.td_list).last_trb
               \/ er.trbs[er.dequeue].trb = eps[e].ring.dequeue
               \/ er.trbs[er.dequeue].code \notin {"COMP_SUCCESS", "COMP_SHORT_TX"}
     /\ (DataStageEvent /\ er'.dequeue # er.dequeue)
          => (OnlyLengthRecorded \/ eps' = eps)]_vars

\* the handler has taken a Success event for the Setup TRB of a control TD off
\* the event ring and the TD off the td_list, the dequeue pointer past it,
\* before the controller has executed a TRB of it
C37_Witness ==
  /\ er.trbs[0] = [TransferEvent(0, 0, "COMP_SUCCESS") EXCEPT !.cycle = 1]
  /\ er.dequeue = 1
  /\ eps[0].ring.td_list = << >>
  /\ eps[0].ring.dequeue = SegTrbs(1)
  /\ eps[0].ring.trbs[0].type = "setup"
  /\ hw[0].deq = 0
  /\ hw[0].halt_at = NULL

(* ------------------------------------------------------------------ *)
(* The dequeue state past a TD that halted its endpoint                *)
(* ------------------------------------------------------------------ *)

\* a bulk request of one TRB and a control request of four TRBs
StopUrbs == { BulkUrb(0, 512, FALSE), CtrlUrb(64, TRUE) }

\* requests are submitted and transferred, a TRB babbles, the interrupt handler
\* cleans up after the TD
NextDeq ==
  \/ \E urb \in StopUrbs : Submit(0, urb)
  \/ BuilderStep
  \/ \E code \in {"COMP_SUCCESS", "COMP_BABBLE"} : HcStep(0, code)
  \/ xhci_mtk_irq_entry
  \/ xhci_mtk_irq_event

SpecDeq == Init /\ [][NextDeq]_vars

\* the cycle state of a consumer that goes from the TRB at from to the TRB
\* at to, toggled at each Link TRB with LINK_TOGGLE it passes
RECURSIVE CycleStateAlong(_, _, _, _, _)
CycleStateAlong(ring, from, to, cycle, fuel) ==
  IF from.trb = to \/ fuel = 0 THEN cycle
  ELSE LET trb == ring.trbs[from.trb]
       IN CycleStateAlong(ring, next_trb(ring, from), to,
                          IF trb.type = "link" /\ trb.toggle THEN Toggle(cycle) ELSE cycle,
                          fuel - 1)

\* the loop of the interrupt handler is at the event of a TRB that babbled, a
\* TRB of the TD at the head of the td_list, where the controller stopped
HaltEvent ==
  LET event == er.trbs[er.dequeue]
      ring == eps[event.e].ring
  IN /\ irq.pc = "events"
     /\ EventPending
     /\ event.type = "transfer"
     /\ event.code = "COMP_BABBLE"
     /\ ring.td_list # << >>
     /\ eps[event.e].ctx_state = "halted"
     /\ hw[event.e].deq = event.trb
     /\ trb_in_td(ring, ring.deq_seg, ring.dequeue, Head(ring.td_list).last_trb,
                  event.trb + 1) # NULL

\* what xhci_find_new_dequeue_state() yields for the TD of that event
NewDequeueState ==
  LET event == er.trbs[er.dequeue]
  IN xhci_find_new_dequeue_state([HcdState EXCEPT !.eps[event.e].stopped_trb = event.trb],
                                 event.e, Head(eps[event.e].ring.td_list))

\* C38: the new dequeue pointer xhci_find_new_dequeue_state() yields is the TRB
\* after the last TRB of the TD, and the new cycle state is the cycle state the
\* controller stopped with, toggled once for each Link TRB with LINK_TOGGLE
\* between the TRB it stopped at and the new dequeue pointer, going through the
\* rest of the TD.
C38_NewDequeueStatePastTd ==
  HaltEvent =>
    LET event == er.trbs[er.dequeue]
        ring == eps[event.e].ring
        td == Head(ring.td_list)
        h == hw[event.e]
        fuel == 2 * NumSegs * TRBS_PER_SEGMENT
        at_last == CycleStateAlong(ring, [seg |-> h.seg, trb |-> event.trb], td.last_trb,
                                   h.ccs, fuel)
    IN /\ NewDequeueState.trb = td.last_trb + 1
       /\ NewDequeueState.cycle = at_last

\* a TD that goes around the ring babbled on a TRB of the segment its last
\* TRB is in, a TRB after the last one in that segment
C38_Witness ==
  /\ HaltEvent
  /\ er.trbs[er.dequeue].trb > Head(eps[0].ring.td_list).last_trb
  /\ hw[0].seg = find_trb_seg(eps[0].ring, hw[0].seg, Head(eps[0].ring.td_list).last_trb, 0).seg

(* ------------------------------------------------------------------ *)
(* Properties of trb_in_td()                                           *)
(* ------------------------------------------------------------------ *)

\* the bus addresses trb_in_td() is asked about: 0, the addresses of the TRBs
\* of the ring and addresses between and after the segments
Addresses == 0 .. (SegTrbs(NumSegs - 1) + TRBS_PER_SEGMENT + 1)

\* the TRBs from the TRB at from to the TRB at to in ring order, both and the
\* Link TRBs on the way included
RECURSIVE TrbsBetween(_, _, _, _)
TrbsBetween(ring, from, to, fuel) ==
  IF from.trb = to \/ fuel = 0 THEN { from.trb }
  ELSE { from.trb } \cup TrbsBetween(ring, next_trb(ring, from), to, fuel - 1)

\* the loop of the interrupt handler is at a transfer event for an endpoint
\* with a TD on its td_list: handle_tx_event() is about to call trb_in_td() with
\* the ring's dequeue pointer and the last TRB of the TD at the head
TransferEventAtTd ==
  LET event == er.trbs[er.dequeue]
  IN /\ irq.pc = "events"
     /\ EventPending
     /\ event.type = "transfer"
     /\ eps[event.e].ring.td_list # << >>

\* C39: trb_in_td(start_seg, start_trb, end_trb, dma) is the segment of the TRB
\* at dma if dma is the address of a TRB from start_trb to end_trb in ring
\* order, both included, and NULL for every other address; start_trb and
\* end_trb as handle_tx_event() gives them.
C39_TrbInTdIffBetween ==
  TransferEventAtTd =>
    LET ring == eps[er.trbs[er.dequeue].e].ring
        end_trb == Head(ring.td_list).last_trb
        between == TrbsBetween(ring, [seg |-> ring.deq_seg, trb |-> ring.dequeue], end_trb,
                               NumSegs * TRBS_PER_SEGMENT)
    IN \A dma \in Addresses :
         trb_in_td(ring, ring.deq_seg, ring.dequeue, end_trb, dma)
           = IF dma - 1 \in between THEN (dma - 1) \div (TRBS_PER_SEGMENT + 1) ELSE NULL

\* the handler is at an event for a TRB of the second segment while the TD at
\* the head of the td_list starts at the ring's dequeue pointer in the first
\* segment, goes through the second and ends in the first, before where it
\* starts
C39_Witness ==
  /\ TransferEventAtTd
  /\ eps[0].ring.deq_seg = 0
  /\ Head(eps[0].ring.td_list).first_trb = eps[0].ring.dequeue
  /\ Head(eps[0].ring.td_list).last_trb < eps[0].ring.dequeue
  /\ er.trbs[er.dequeue].trb >= SegTrbs(1)
  /\ eps[0].ring.trbs[er.trbs[er.dequeue].trb].type # "link"

(* ------------------------------------------------------------------ *)
(* Cancelling a TD in place: td_to_noop()                              *)
(* ------------------------------------------------------------------ *)

\* td_to_noop() treating a Link TRB like any other TRB of the TD
RECURSIVE td_to_noop_links_too_loop(_, _, _, _)
td_to_noop_links_too_loop(ring, c, last, fuel) ==
  LET r == [ring EXCEPT !.trbs[c.trb] = Trb("noop", ring.trbs[c.trb].cycle, FALSE, FALSE)]
  IN IF c.trb = last \/ fuel = 0 THEN r
     ELSE td_to_noop_links_too_loop(r, next_trb(ring, c), last, fuel - 1)

td_to_noop_links_too(ring, cur_td) ==
  td_to_noop_links_too_loop(ring, [seg |-> cur_td.start_seg, trb |-> cur_td.first_trb],
                            cur_td.last_trb, Cardinality(Slots))

\* the for loop of td_to_noop(): a Link TRB loses its chain bit, any other TRB
\* keeps its cycle bit only and gets the type No-op; the loop ends after the
\* TRB at last. The walk is cut off after one round of the ring
RECURSIVE td_to_noop_loop(_, _, _, _)
td_to_noop_loop(ring, c, last, fuel) ==
  LET r == IF ring.trbs[c.trb].type = "link"
           THEN [ring EXCEPT !.trbs[c.trb].chain = FALSE]
           ELSE [ring EXCEPT !.trbs[c.trb] = Trb("noop", ring.trbs[c.trb].cycle, FALSE, FALSE)]
  IN IF c.trb = last \/ fuel = 0 THEN r
     ELSE td_to_noop_loop(r, next_trb(ring, c), last, fuel - 1)

td_to_noop(ring, cur_td) ==
  td_to_noop_loop(ring, [seg |-> cur_td.start_seg, trb |-> cur_td.first_trb],
                  cur_td.last_trb, Cardinality(Slots))

\* the end of xhci_queue_bulk_tx() with g_td_to_noop set: the first TRB gets
\* its cycle bit, the TD is cancelled in place and taken off the td_list, no
\* doorbell is rung
xhci_queue_bulk_tx_noop ==
  /\ cur.pc = "giveback"
  /\ cur.urb.kind = "bulk"
  /\ cur.urb.sg = << >>
  /\ LET e == cur.e
         ring == giveback_first_trb(eps[e].ring, cur)
         n == Len(ring.td_list)
         r == td_to_noop(ring, ring.td_list[n])
     IN eps' = [eps EXCEPT ![e].ring = [r EXCEPT !.td_list = SubSeq(@, 1, n - 1)]]
  /\ cur' = Idle
  /\ ret' = "OK"
  /\ UNCHANGED << hw, er, xhc_state, wd, given, cmd_ring, cmd_hw, regs, irq >>

\* bulk requests of one TRB and of two
NoopUrbs == { BulkUrb(0, 512, FALSE), BulkUrb(65024, 1024, FALSE) }

\* one bulk endpoint with its controller and the interrupt handler, the
\* builder with and without g_td_to_noop
NextNoop ==
  \/ \E urb \in NoopUrbs : Submit(0, urb)
  \/ BuilderStep
  \/ xhci_queue_bulk_tx_noop
  \/ HcStep(0, "COMP_SUCCESS")
  \/ xhci_mtk_irq_entry
  \/ xhci_mtk_irq_event

SpecNoop == Init /\ [][NextNoop]_vars

\* a step that cancelled the TD of the builder call in progress
TdCancelled ==
  /\ cur.pc = "giveback"
  /\ cur'.pc = "idle"
  /\ Len(eps'[cur.e].ring.td_list) < Len(eps[cur.e].ring.td_list)

\* the TD the builder call in progress has written
BuiltTd == eps[cur.e].ring.td_list[Len(eps[cur.e].ring.td_list)]

\* the TRBs of the TD the builder call in progress has written
BuiltTrbs ==
  TrbsBetween(eps[cur.e].ring, [seg |-> BuiltTd.start_seg, trb |-> BuiltTd.first_trb],
              BuiltTd.last_trb, Cardinality(Slots))

\* C40: cancelling a TD in place turns every non-Link TRB from the TD's first
\* TRB through its last TRB into a No-op TRB with the cycle bit it had, only
\* clears the chain bit of the Link TRBs inside the TD, and changes no TRB
\* outside the TD, no cycle bit, no Link TRB's segment pointer or toggle flag
\* and no ring cursor
C40_TdToNoopInPlace ==
  [][TdCancelled =>
       LET before == giveback_first_trb(eps[cur.e].ring, cur)
           after == eps'[cur.e].ring
       IN /\ \A p \in Slots :
               /\ after.trbs[p].cycle = before.trbs[p].cycle
               /\ after.trbs[p].toggle = before.trbs[p].toggle
               /\ IF p \notin BuiltTrbs THEN after.trbs[p] = before.trbs[p]
                  ELSE IF before.trbs[p].type = "link"
                  THEN after.trbs[p] = [before.trbs[p] EXCEPT !.chain = FALSE]
                  ELSE after.trbs[p].type = "noop"
          /\ after.segs = before.segs
          /\ after.enqueue = before.enqueue
          /\ after.enq_seg = before.enq_seg
          /\ after.dequeue = before.dequeue
          /\ after.deq_seg = before.deq_seg
          /\ after.cycle_state = before.cycle_state]_vars

\* a TD of two TRBs with a Link TRB between them has been cancelled: its TRBs
\* are No-op TRBs with the cycle bit of the ring, the Link TRB is still a Link
\* TRB and no longer chained, and the TRB before the TD is as it was written
C40_Witness ==
  /\ cur.pc = "idle"
  /\ eps[0].ring.td_list = << >>
  /\ eps[0].ring.trbs[0].type = "normal"
  /\ eps[0].ring.trbs[1].type = "noop"
  /\ eps[0].ring.trbs[1].cycle = 1
  /\ eps[0].ring.trbs[TRBS_PER_SEGMENT - 1].type = "link"
  /\ ~eps[0].ring.trbs[TRBS_PER_SEGMENT - 1].chain
  /\ eps[0].ring.trbs[SegTrbs(1)].type = "noop"
  /\ eps[0].ring.trbs[SegTrbs(1)].cycle = 1
  /\ eps[0].ring.enqueue = SegTrbs(1) + 1

\* a TRB written with cycle bit 0, on the second round of the ring, has been
\* cancelled
CancelledOnSecondRound ==
  \E p \in Slots : eps[0].ring.trbs[p].type = "noop" /\ eps[0].ring.trbs[p].cycle = 0

====
